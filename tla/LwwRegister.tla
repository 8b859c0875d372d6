---------------------------- MODULE LwwRegister ----------------------------
(***************************************************************************)
(* What one table of durable user state promises: a register per item that *)
(* holds the newest mutation of the item, a value or its deletion.  A      *)
(* mutation replaces what the register holds only when it is at least as   *)
(* new, and a deletion wins a tie.  One write may erase older values of    *)
(* other items, and deletions may be forgotten, values never.              *)
(*                                                                         *)
(* docs/architecture-security.md, "Durable state and replay model", says   *)
(* this in words; UserState is shown to implement it for both tables.      *)
(***************************************************************************)
EXTENDS Naturals

CONSTANTS Item,
          Value,  \* live values: records with kind "live" and a version ts
          Time    \* the versions of mutations

VARIABLE reg    \* reg[i]: what is known of item i

Unknown     == [kind |-> "unknown", ts |-> 0]
Deleted(ts) == [kind |-> "deleted", ts |-> ts]
IsLive(v)   == v.kind = "live"

(* v may take the place of w: at least as new, and a deletion at the same  *)
(* time is never undone.                                                   *)
Supersedes(v, w) ==
    \/ w.kind = "unknown"
    \/ v.ts > w.ts
    \/ v.ts = w.ts /\ (v.kind = "deleted" \/ w.kind = "live")

Init == reg = [i \in Item |-> Unknown]

(* Item i takes the live value v; older live values of the items in S go. *)
Write(i, v, S) ==
    /\ IsLive(v)
    /\ Supersedes(v, reg[i])
    /\ \A j \in S : IsLive(reg[j]) /\ Supersedes(Deleted(v.ts), reg[j])
    /\ reg' = [j \in Item |-> IF j = i THEN v
                              ELSE IF j \in S THEN Deleted(v.ts) ELSE reg[j]]

(* The items in S are deleted at ts. *)
Erase(S, ts) ==
    /\ \A j \in S : Supersedes(Deleted(ts), reg[j])
    /\ reg' = [j \in Item |-> IF j \in S THEN Deleted(ts) ELSE reg[j]]

(* Deletions old enough are forgotten; a live value never is. *)
Forget(S) ==
    /\ \A j \in S : ~IsLive(reg[j])
    /\ reg' = [j \in Item |-> IF j \in S THEN Unknown ELSE reg[j]]

Next ==
    \/ \E i \in Item, v \in Value, S \in SUBSET Item : Write(i, v, S)
    \/ \E S \in SUBSET Item, ts \in Time : Erase(S, ts)
    \/ \E S \in SUBSET Item : Forget(S)

Spec == Init /\ [][Next]_reg
=============================================================================
