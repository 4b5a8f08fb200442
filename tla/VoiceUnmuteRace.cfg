CONSTANTS
    ann = ann
    bob = bob
    k1 = k1
    k2 = k2
    k3 = k3
    s1 = s1
    s2 = s2
    c1 = c1
    c2 = c2
    User = {ann}
    Socket = {k1}
    Owner <- OneTab
    Server = {s1}
    Channel = {c1}
    ServerOf <- OneChannel
    Task = {t1, t2}
    Moderated <- OneModerated
    Sends <- AllPackets
    Capacity = 1
    NoUser = NoUser
    NoSocket = NoSocket
    NoServer = NoServer
    NoChannel = NoChannel
SPECIFICATION Spec
PROPERTY ServerMutedCannotUnmute
