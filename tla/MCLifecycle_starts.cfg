\* A unit and two other daemons, started, stopped and crashing at any step.
SPECIFICATION Spec
CONSTANTS
    Daemon <- Daemons
    Unit <- Units
INVARIANTS
    OneInPlace
    StartsUnlessMet
PROPERTIES
    ServiceReturns
