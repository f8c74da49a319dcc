---------------------------- MODULE Installation ----------------------------
(* What the smaller parts of an installation have names for in common.      *)

CONSTANTS
    AllSystems,         \* the systems there are, or were
    AllOrganizations,   \* the customers
    Operator,           \* who runs the installation
    Persons,            \* customers' people, and the subjects of receipts
    None
=============================================================================
