----------------------------- MODULE Completions -----------------------------
(***************************************************************************)
(* What an acknowledged broadcast tells the user's callback                *)
(* (BroadcastOperator.Emit, socket/broadcast-operator.go).                 *)
(***************************************************************************)
EXTENDS Integers, FiniteSets

CONSTANT Client  \* the clients that the broadcast's options select
VARIABLES
  completions,   \* the calls of the callback
  miscounted     \* history: the counters include a count of another broadcast

(* err: it got an error; of: whose answers; extra: the responses beyond one  *)
(* for each of them.                                                         *)
Completion == [err : BOOLEAN, of : SUBSET Client, extra : Int]

(* Completion means what the counters are meant to say, whatever else        *)
(* arrives: unless a stray count was added, a call without an error has the  *)
(* answers of all clients of all servers but one for each response that      *)
(* stands for nobody, and so of all of them if there is none.                *)
CompleteMeansAll ==
  miscounted \/ \A i \in DOMAIN completions :
    ~completions[i].err =>
      Cardinality(Client \ completions[i].of) = completions[i].extra
=============================================================================
