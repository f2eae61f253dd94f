---------------------------- MODULE MCWebClient ----------------------------
(***************************************************************************)
(* The browser's side for TLC: the session of a browser with two tabs, and *)
(* one request editor.  They share no state; `part` says which of them a   *)
(* behaviour is about.                                                     *)
(***************************************************************************)
EXTENDS Session

CONSTANT Sends

VARIABLES part, editor, draft, send, restored, fresh

builderVars == <<editor, draft, send, restored, fresh>>

Builder == INSTANCE RequestBuilder

WebInit == part \in {"session", "builder"} /\ Init /\ Builder!Init

SessionStep == part = "session" /\ Next /\ UNCHANGED <<part, builderVars>>
BuilderStep == part = "builder" /\ Builder!Next /\ UNCHANGED <<part, vars>>

WebSpec ==
  /\ WebInit
  /\ [][SessionStep \/ BuilderStep]_<<part, vars, builderVars>>
  /\ Fairness
  /\ Builder!Fairness

\* What a reset removes for good; see RequestBuilder.
ResetStays == Builder!ResetStays

\* Every call of the API ends, and the spinner of the editor stops.
EverythingSettles == CallsEnd /\ Builder!SpinnerStops

=============================================================================
