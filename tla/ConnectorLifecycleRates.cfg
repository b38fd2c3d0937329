SPECIFICATION Spec
CONSTANTS
    udp = udp
    mqtt = mqtt
    listener = listener
    onChange1 = onChange1
    onChange2 = onChange2
    Connectors = {udp, mqtt}
    Callbacks = {listener, onChange1, onChange2}
    ConnectorOf <- MCConnectorOf
    Multicast = {udp}
    Broker = mqtt
    Joiners = {cmd}
    Defs <- MCDefs
    Primary <- MCPrimary
    Portals <- MCPortals
    MaxChanges = 3
SYMMETRY Alike
INVARIANT OneTaskSet
CHECK_DEADLOCK FALSE
