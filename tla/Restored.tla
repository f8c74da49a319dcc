------------------------------ MODULE Restored ------------------------------
(* The two models in which an old copy of the database is put back: the     *)
(* signer's memory, which init-from-db fills from the database (Adoption),  *)
(* and the people and the nonces behind the receipts (Erasure).             *)
EXTENDS Naturals, Installation

CONSTANTS
    Contents, MaxLength, MaxUpsets,
    OwnerOf, Traces, NoTrace, Naming, MaxDrawn, MaxRestores

VARIABLES
    db, copy, damaged, files, marker, release, up, command, outcome,
    held, adoptions, upsets,
    tables, signed, tablesCopy, left, drawn, restores

memoryVars == <<db, copy, damaged, files, marker, release, up, command, outcome,
                held, adoptions, upsets>>
peopleVars == <<tables, signed, tablesCopy, left, drawn, restores>>

Memory == INSTANCE Adoption WITH Systems <- AllSystems, signed <- held

People == INSTANCE Erasure WITH
    Systems <- AllSystems, Organizations <- AllOrganizations,
    People <- Persons, Nobody <- None,
    db <- tables, copy <- tablesCopy

ASSUME RestoredConstants == Memory!AdoptionConstants /\ People!ErasureConstants

\* The properties, by the names they have in their modules.
OneBranch == Memory!OneBranch
OneMeaning == People!OneMeaning
LinksLostOnPurpose == People!LinksLostOnPurpose
=============================================================================
