SPECIFICATION Spec
CONSTANTS
    root = root
    ann = ann
    rootMail = rootMail
    annMail = annMail
    bob = bob
    bobMail = bobMail
    p1 = p1
    p2 = p2
    short = short
    yandexAnn = yandexAnn
    None = None
    Clients = {c1}
    Names = {root, ann, bob}
    Emails = {rootMail, annMail, bobMail}
    Passwords = {p1, p2, short}
    LongPasswords = {p1, p2}
    Profiles = {yandexAnn}
    SocialName <- MCSocialName
    ProfileEmail <- MCProfileEmail
    Generated = Generated
    SuperName = root
    SuperEmail = rootMail
    SuperPassword = p1
    Bootstraps = {b1, b2}
    Throttle = 2
    MaxUsers = 2
INVARIANTS AccTypeOK SuperuserIsConfigured AnnouncedIsOnRecord
PROPERTIES NotLockedOut
