-------------------------- MODULE MCProviderGateway --------------------------
(* A write, a second attempt under its request id with a new approval, a     *)
(* retry under a new id and with the same key, and a read.                   *)
EXTENDS ProviderGateway, TLC

CONSTANTS first, again, retry, read, id1, id2, id3, update, fetch, k1, a1, a2

MCCall == {first, again, retry, read}
MCIdOf == (first :> id1) @@ (again :> id1) @@ (retry :> id2) @@ (read :> id3)
MCCapOf == [c \in MCCall |-> IF c = read THEN fetch ELSE update]
MCKeyOf == [c \in MCCall |-> IF c = read THEN NoKey ELSE k1]
MCApprovalOf ==
    (first :> a1) @@ (again :> a2) @@ (retry :> a2) @@ (read :> NoApproval)
MCGrantedTo == [a \in {a1, a2} |-> MCCall \ {read}]
=============================================================================
