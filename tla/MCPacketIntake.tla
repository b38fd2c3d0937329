--------------------------- MODULE MCPacketIntake ---------------------------
(***************************************************************************)
(* A small mesh for PacketIntake: two receiving threads, two remote nodes  *)
(* (10, 11), one managed node (20), and four joined channels, of which one  *)
(* is keyless and the third is LongFast again under another key.          *)
(***************************************************************************)
EXTENDS PacketIntake

MCNodes == {0, 10, 11, 20, 255}
MCBroadcast == 255
MCManaged == {20}

MCChannels == << [name |-> "LongFast", hash |-> 8, key |-> "k1"],
                 [name |-> "Open",     hash |-> 9, key |-> ""],
                 [name |-> "LongFast", hash |-> 7, key |-> "k3"],
                 [name |-> "Zero",     hash |-> 0, key |-> "k0"] >>

MCPacket(id, from, to, channel, hash, sealed, port, envelope) ==
    [id |-> id, from |-> from, to |-> to, channel |-> channel, hash |-> hash,
     sealed |-> sealed, port |-> port, envelope |-> envelope]

MCPackets == {
    \* one text, encrypted over UDP and in the clear over MQTT
    MCPacket(1, 10, 255, "LongFast", 8, "k1", "text", ""),
    MCPacket(1, 10, 255, "LongFast", 8, "clear", "text", "LongFast"),
    \* a node info without an id (never a duplicate), and a PKI message
    \* that can be opened only after it
    MCPacket(0, 10, 255, "LongFast", 8, "k1", "nodeinfo", ""),
    MCPacket(3, 10, 20, "PKI", 0, "pki", "text", ""),
    \* a pre-shared key on hash 0, the hash of PKI packets
    MCPacket(4, 10, 20, "Zero", 0, "k0", "traceroute", ""),
    \* requests to the managed node, and a packet without a sender
    MCPacket(5, 10, 20, "LongFast", 8, "k1", "telemetry", ""),
    MCPacket(5, 11, 20, "LongFast", 7, "k3", "telemetryOther", ""),
    MCPacket(9, 0, 255, "LongFast", 8, "k1", "neighborDummy", ""),
    \* the bridge's own transmission
    MCPacket(1, 20, 255, "LongFast", 8, "k1", "text", "") }
=============================================================================
