SPECIFICATION Eth10mSpec
CONSTANTS
    Eth10mQueue = 1
INVARIANT Eth10mStashDelivered
