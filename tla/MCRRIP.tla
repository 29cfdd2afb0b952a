------------------------------- MODULE MCRRIP -------------------------------
(* Two sets of two ways; three addresses compete for set 0, and one has    *)
(* set 1.  Address 4 shares its signature with address 2 of the other set, *)
(* and that is 0, the signature of a zeroed block_meta.                    *)
EXTENDS RRIP

MCSetOf == [a \in Address |-> IF a <= 3 THEN 0 ELSE 1]
MCSignature == [a \in Address |-> a % SHCTSize]
=============================================================================
