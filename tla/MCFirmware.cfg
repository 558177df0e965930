SPECIFICATION FairSpec
CONSTANTS
    MaxPackets = 3
    MaxResets = 1
INVARIANTS ReadyBeforeUse PhoneCanReturn AnnouncedMeansAnswered SubscriptionOnItsWay BootIsComplete
PROPERTIES DrivesSession SubscribedAgain ComesUp
CHECK_DEADLOCK FALSE
