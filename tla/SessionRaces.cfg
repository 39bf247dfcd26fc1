SPECIFICATION Spec
CONSTANTS
    Accounts = {a1}
    Nobody = Nobody
    Tabs = {t1, t2}
    DoorTabs = {t1}
    MaxIssued = 3
    MaxInFlight = 2
INVARIANTS CookieNeverStranded OwnRotationNeverRefuses NobodyWaitsAlone
PROPERTIES RefusalKeepsNewerToken
CHECK_DEADLOCK FALSE
