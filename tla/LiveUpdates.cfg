SPECIFICATION Spec
CONSTANTS
    ann = ann
    bob = bob
    byId = byId
    byToken = byToken
    page = page
    twin = twin
    guest = guest
    Accounts = {ann, bob}
    Nobody = Nobody
    Components = {page, twin, guest}
    Watches = {byId, byToken}
    Nothing = Nothing
    WatchOf <- MCWatchOf
    MayWatch <- MCMayWatch
    GuestWatches = {byToken}
    MaxSubscriptions = 2
    MaxQueue = 3
    MaxDrops = 2
INVARIANTS WatchesJoined SocketFollowsAccount NeverStuckNorLeaked
CHECK_DEADLOCK FALSE
PROPERTY ListenersGetConnected
