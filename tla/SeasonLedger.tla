---------------------------- MODULE SeasonLedger ----------------------------
(***************************************************************************)
(* What the wallet promises of its journal, with no request, account or    *)
(* balance in sight: entries are only ever added, one at a time, only to   *)
(* the season that is active, and never under an idempotency key that was  *)
(* used before in any season; seasons follow one another and none is       *)
(* reopened.  WalletLedger implements it.                                  *)
(***************************************************************************)
EXTENDS Naturals

VARIABLES season,     \* the number of the active season
          ledger      \* the posted transactions, records with key and season

vars == <<season, ledger>>

Init ==
  /\ season = 1
  /\ ledger = {}

(* One transaction, under a key no transaction of any season has. *)
Append ==
  /\ \E t \in ledger' :
       /\ t.season = season
       /\ \A old \in ledger : old.key # t.key
       /\ ledger' = ledger \cup {t}
  /\ UNCHANGED season

(* The next season opens; what was posted stays as it is. *)
NextSeason ==
  /\ season' = season + 1
  /\ UNCHANGED ledger

Next == Append \/ NextSeason

Spec == Init /\ [][Next]_vars
=============================================================================
