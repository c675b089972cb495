SPECIFICATION FairSpec
CONSTANTS
    K = 1
    MaxDown = 1
PROPERTIES DeliveredWhileConnected
