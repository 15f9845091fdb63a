\* Two sends, two devices of two users, batches of one token.
SPECIFICATION Spec
CONSTANTS
    GSM7_SINGLE_LIMIT = 160
    GSM7_CONCATENATED_LIMIT = 153
    UCS2_SINGLE_LIMIT = 70
    UCS2_CONCATENATED_LIMIT = 67
    User = {u1, u2}
    NoUser = NoUser
    Token = {t1, t2}
    Send = {s1, s2}
    Deployment = {{"sms", "email", "push"}, {"sms", "push"}, {"email"}}
    Number <- Numbers
    FCM_MULTICAST_BATCH_LIMIT = 1
    MaxNotifications = 2
    MaxTime = 2
SYMMETRY Symmetry
INVARIANTS TypeOK ChannelsTried DevicesFollowFcm
 
CHECK_DEADLOCK FALSE
