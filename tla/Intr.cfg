SPECIFICATION Spec
CONSTANTS
    Causes = {"RXT", "RXO", "SRPD", "TXQE"}
    AutoMasks <- NoneOrReceive
    Intervals = {0, 2}
    RxDelays <- NoneOrBoth
INVARIANTS IntrTypeOK LineFollowsCauses IntervalKept
PROPERTIES EnabledCauseInterrupts DelayedPacketReported
