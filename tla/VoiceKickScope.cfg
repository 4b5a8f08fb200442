CONSTANTS
    ann = ann
    bob = bob
    k1 = k1
    k2 = k2
    k3 = k3
    s1 = s1
    s2 = s2
    c1 = c1
    c2 = c2
    User = {ann, bob}
    Socket = {k1, k2, k3}
    Owner <- TwoTabs
    Server = {s1, s2}
    Channel = {c1, c2}
    ServerOf <- OnePerServer
    Task = {t1, t2}
    Moderated <- OneModerated
    Sends <- Packets
    Capacity = 1
    NoUser = NoUser
    NoSocket = NoSocket
    NoServer = NoServer
    NoChannel = NoChannel
SPECIFICATION Spec
PROPERTY KickStaysInItsServer
