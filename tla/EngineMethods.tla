---------------------------- MODULE EngineMethods ---------------------------
(***************************************************************************)
(* The calls the consensus client makes to its execution engine: before    *)
(* each one it asks which methods the engine has, once, and keeps the      *)
(* answer until the supervisor of the engine clears it; then it takes the  *)
(* newest version of the method that carries what it has to say.           *)
(*                                                                         *)
(* Several tasks call at once.  The engine may restart as another version  *)
(* of itself between any two steps, and any call may time out.  An         *)
(* exchange of capabilities holds the lock of the cache while it waits.    *)
(***************************************************************************)
EXTENDS Subsequences

CONSTANTS
  Asker, NoAsker,
  Asks,               \* the calls made: what kind, for which fork
  Builds,             \* the sets of methods the engine comes in
  Eras                \* a bound on the engine's restarts

PayloadForks == {"capella", "deneb", "electra", "daisugi", "fulu", "gloas"}

(* Payloads are of Capella or later; nobody holds no lock. *)
ASSUME AsksAssumption ==
  /\ Asks \subseteq [kind : {"newPayload", "getPayload"}, of : PayloadForks]
       \cup [kind : {"forkchoice"}, of : {"v1", "v2", "v3", "v4", "none"}]
       \cup [kind : {"clientVersion", "refresh"}, of : {"none"}]
  /\ NoAsker \notin Asker
  /\ Eras \in Nat

VARIABLES
  execution,          \* the engine: its methods and which start of it runs
  capabilities,       \* the cache: methods and the start they were asked of
  capLock,            \* who holds it
  version, versionLock,   \* the cache of the client version, likewise
  cleared,            \* the start the supervisor last cleared the cache at
  request             \* of each caller: what it asks and how far it is

methodVars == <<execution, capabilities, capLock, version, versionLock,
                cleared, request>>

NotCached == [era |-> 0, methods |-> {}]

\* The versions of a method that can carry it, newest first.
Versions(ask) ==
  CASE ask.kind = "newPayload" ->
         [capella |-> <<2, 1>>, deneb |-> <<3>>, electra |-> <<4>>,
          daisugi |-> <<4>>, fulu |-> <<4>>, gloas |-> <<5>>][ask.of]
    [] ask.kind = "getPayload" ->
         [capella |-> <<2, 1>>, deneb |-> <<3>>, electra |-> <<4>>,
          daisugi |-> <<4>>, fulu |-> <<5>>, gloas |-> <<6>>][ask.of]
    [] ask.kind = "forkchoice" ->
         [v1 |-> <<2, 1>>, v2 |-> <<2, 1>>, v3 |-> <<3>>, v4 |-> <<4>>,
          none |-> <<3, 2, 1>>][ask.of]
    [] OTHER -> <<1>>

Method(ask, v) == <<ask.kind, v>>

(* Mutant of Candidates: with nothing listed, the newest version is called. *)
CandidatesAnyway(ask, methods) ==
  IF \A i \in DOMAIN Versions(ask) : Method(ask, Versions(ask)[i]) \notin methods
  THEN Versions(ask)
  ELSE PartAt(Versions(ask), {i \in DOMAIN Versions(ask) : Method(ask, Versions(ask)[i]) \in methods})

Candidates(ask, methods) ==
  PartAt(Versions(ask), {i \in DOMAIN Versions(ask) : Method(ask, Versions(ask)[i]) \in methods})

(* Mutant of Required: what verifies a payload is not asked for. *)
RequiredToBuild(fork) ==
  {<<"getPayload", [capella |-> 2, deneb |-> 3, electra |-> 4, daisugi |-> 4,
                    fulu |-> 5, gloas |-> 6][fork]>>}

\* methods_required_for_fork: the methods whose absence the notifier reports.
Required(fork) ==
  [capella |-> {<<"getPayload", 2>>, <<"forkchoice", 2>>, <<"newPayload", 2>>},
   deneb   |-> {<<"getPayload", 3>>, <<"forkchoice", 3>>, <<"newPayload", 3>>},
   electra |-> {<<"getPayload", 4>>, <<"newPayload", 4>>},
   daisugi |-> {<<"getPayload", 4>>, <<"newPayload", 4>>},
   fulu    |-> {<<"getPayload", 5>>, <<"newPayload", 4>>},
   gloas   |-> {<<"getPayload", 6>>, <<"newPayload", 5>>}][fork]

(* Mutant of Decoded: each version has a fork of its own. *)
DecodedByVersion(fork, v) ==
  <<"bellatrix", "capella", "deneb", "electra", "fulu", "gloas">>[v]

\* The variant a version of getPayload is decoded as; the first has no fork.
Decoded(fork, v) == IF v = 1 THEN "bellatrix" ELSE fork

\* The engine: what it answers a version for a payload of a fork.
Speaks(ask, v) ==
  CASE ask.kind = "newPayload" ->
         v = [capella |-> 2, deneb |-> 3, electra |-> 4, daisugi |-> 4,
              fulu |-> 4, gloas |-> 5][ask.of]
    [] ask.kind = "getPayload" ->
         v \in [capella |-> {1, 2}, deneb |-> {3}, electra |-> {4},
                daisugi |-> {4}, fulu |-> {5}, gloas |-> {6}][ask.of]
    [] OTHER -> TRUE

Answered(ask, v, methods) ==
  IF Method(ask, v) \notin methods THEN "notFound"
  ELSE IF ~Speaks(ask, v) THEN "unsupportedFork"
  ELSE IF ask.kind = "getPayload" THEN Decoded(ask.of, v)
  ELSE "ok"

AtRest == [at |-> "rest", ask |-> [kind |-> "refresh", of |-> "none"],
            used |-> NotCached, floor |-> 0, v |-> 0, answer |-> "none"]

MethodInit ==
  /\ execution \in [era : {1}, methods : Builds]
  /\ capabilities = NotCached /\ version = NotCached
  /\ capLock = NoAsker /\ versionLock = NoAsker
  /\ cleared = 0
  /\ request = [c \in Asker |-> AtRest]

Goes(c, at) == request' = [request EXCEPT ![c].at = at]

\* What the call held is dropped with its answer.
Finished(c, answer) ==
  request' = [request EXCEPT
    ![c] = [AtRest EXCEPT !.at = "done", !.ask = request[c].ask, !.answer = answer]]

Ask(c) == \E ask \in Asks :
  /\ request[c].at = "rest"
  /\ request' = [request EXCEPT ![c].at = "capabilities", ![c].ask = ask, ![c].floor = cleared]
  /\ UNCHANGED <<execution, capabilities, capLock, version, versionLock, cleared>>

\* get_engine_capabilities: the lock is taken to read the cache as well.
FindCached(c) ==
  /\ request[c].at = "capabilities" /\ capLock = NoAsker
  /\ request[c].ask.kind # "refresh" /\ capabilities # NotCached
  /\ request' = [request EXCEPT ![c].at = "choose", ![c].used = capabilities]
  /\ UNCHANGED <<execution, capabilities, capLock, version, versionLock, cleared>>

(* Mutant of HoldLock: the exchange does not hold the lock of the cache. *)
HoldNoLock(c) == NoAsker

HoldLock(c) == c

StartExchange(c) ==
  /\ request[c].at = "capabilities" /\ capLock = NoAsker
  /\ request[c].ask.kind = "refresh" \/ capabilities = NotCached
  /\ capLock' = HoldLock(c)
  /\ Goes(c, "exchange")
  /\ UNCHANGED <<execution, capabilities, version, versionLock, cleared>>

ReplyExchange(c) ==
  /\ request[c].at = "exchange"
  /\ request' = [request EXCEPT ![c].at = "exchanged", ![c].used = execution]
  /\ UNCHANGED <<execution, capabilities, capLock, version, versionLock, cleared>>

StoreExchange(c) ==
  /\ request[c].at = "exchanged"
  /\ capabilities' = request[c].used
  /\ capLock' = NoAsker
  /\ IF request[c].ask.kind = "refresh" THEN Finished(c, "ok")
     ELSE Goes(c, "choose")
  /\ UNCHANGED <<execution, version, versionLock, cleared>>

LoseExchange(c) ==
  /\ request[c].at \in {"exchange", "exchanged"}
  /\ capLock' = NoAsker
  /\ Finished(c, "error")
  /\ UNCHANGED <<execution, capabilities, version, versionLock, cleared>>

Choose(c) ==
  LET found == Candidates(request[c].ask, request[c].used.methods)
  IN /\ request[c].at = "choose"
     /\ CASE found = <<>> /\ request[c].ask.kind = "clientVersion" ->
               Finished(c, "empty")
          [] found = <<>> /\ request[c].ask.kind # "clientVersion" ->
               Finished(c, "unsupported")
          [] found # <<>> /\ request[c].ask.kind = "clientVersion" -> Goes(c, "version")
          [] OTHER -> request' = [request EXCEPT ![c].at = "sent", ![c].v = Head(found)]
     /\ UNCHANGED <<execution, capabilities, capLock, version, versionLock, cleared>>

Reply(c) ==
  /\ request[c].at = "sent"
  /\ Finished(c, Answered(request[c].ask, request[c].v, execution.methods))
  /\ UNCHANGED <<execution, capabilities, capLock, version, versionLock, cleared>>

\* get_engine_version: the capabilities are asked before this lock is taken.
FindVersion(c) ==
  /\ request[c].at = "version" /\ versionLock = NoAsker
  /\ IF version # NotCached THEN Finished(c, "ok") /\ UNCHANGED versionLock
     ELSE versionLock' = c /\ request' = [request EXCEPT ![c].at = "asked", ![c].v = 1]
  /\ UNCHANGED <<execution, capabilities, capLock, version, cleared>>

ReplyVersion(c) ==
  LET answer == Answered(request[c].ask, request[c].v, execution.methods)
  IN /\ request[c].at = "asked"
     /\ versionLock' = NoAsker
     /\ version' = IF answer = "ok" THEN execution ELSE version
     /\ Finished(c, answer)
     /\ UNCHANGED <<execution, capabilities, capLock, cleared>>

(* Mutant of TimesOut: the question for the version has no limit. *)
TimesOutButVersion(c) == request[c].at = "sent"

TimesOut(c) == request[c].at \in {"sent", "asked"}

TimeOut(c) ==
  /\ TimesOut(c)
  /\ versionLock' = IF versionLock = c THEN NoAsker ELSE versionLock
  /\ Finished(c, "error")
  /\ UNCHANGED <<execution, capabilities, capLock, version, cleared>>

GiveBack(c) ==
  /\ request[c].at = "done"
  /\ request' = [request EXCEPT ![c] = AtRest]
  /\ UNCHANGED <<execution, capabilities, capLock, version, versionLock, cleared>>

\* The supervisor of the engine clears the two caches in turn, each under its lock,
\* when it sees the engine go and come back.
ClearCapabilities ==
  /\ capLock = NoAsker
  /\ capabilities' = NotCached /\ cleared' = execution.era
  /\ UNCHANGED <<execution, capLock, version, versionLock, request>>

ClearVersion ==
  /\ versionLock = NoAsker
  /\ version' = NotCached
  /\ UNCHANGED <<execution, capabilities, capLock, versionLock, cleared, request>>

Restart == \E methods \in Builds :
  /\ execution.era < Eras
  /\ execution' = [era |-> execution.era + 1, methods |-> methods]
  /\ UNCHANGED <<capabilities, capLock, version, versionLock, cleared, request>>

\* The engine need not answer: what ends a call is its time limit.
Ends(c) == FindCached(c) \/ StartExchange(c) \/ StoreExchange(c)
             \/ LoseExchange(c) \/ Choose(c) \/ FindVersion(c)
             \/ TimeOut(c) \/ GiveBack(c)

MethodNext ==
  \/ \E c \in Asker : Ask(c) \/ ReplyExchange(c) \/ Reply(c)
                         \/ ReplyVersion(c) \/ Ends(c)
  \/ ClearCapabilities \/ ClearVersion \/ Restart

\* tokio's mutex serves its waiters in the order they came.
MethodSpec ==
  /\ MethodInit /\ [][MethodNext]_methodVars
  /\ \A c \in Asker : SF_methodVars(Ends(c))

-----------------------------------------------------------------------------
(* A call that begins after the supervisor cleared the cache goes by what  *)
(* the engine said after that: no exchange begun before the clearing puts  *)
(* its answer into the cache afterwards.                                   *)
AfterClear(c) ==
  request[c].at \in {"choose", "sent", "version", "asked"}
    => request[c].used.era >= request[c].floor

(* The engine says it does not know a method only if it restarted since it *)
(* listed its methods, and it never refuses a version for the fork of the  *)
(* payload, unless all it has for a Capella payload is the first version.  *)
RequestsFitStep ==
  \A c \in Asker :
    LET r == request[c]  answer == request'[c].answer IN
    r.at \in {"sent", "asked"} =>
      /\ answer = "notFound" => execution.era > r.used.era
      /\ answer = "unsupportedFork"
           => r.ask = [kind |-> "newPayload", of |-> "capella"] /\ r.v = 1
RequestsFit == [][RequestsFitStep]_methodVars

(* A payload comes back as the variant of the fork it was asked for, so    *)
(* Daisugi's, which no version of the method is its own, is not taken for  *)
(* Electra's; the first version loses Capella's withdrawals.               *)
PayloadOfForkStep ==
  \A c \in Asker :
    LET r == request[c]  answer == request'[c].answer IN
    r.at = "sent" /\ r.ask.kind = "getPayload" /\ answer # "none"
      => \/ answer \in {"notFound", "error", r.ask.of}
         \/ r.ask.of = "capella" /\ r.v = 1
PayloadOfFork == [][PayloadOfForkStep]_methodVars

(* An engine that lacks none of the methods the notifier requires for a    *)
(* fork serves both payload calls of that fork: no caller is told that the *)
(* method is unsupported by capabilities the notifier called ready.        *)
ReadyServesStep ==
  \A c \in Asker :
    LET r == request[c] IN
    r.at = "choose" /\ request'[c].answer = "unsupported"
      /\ r.ask.kind \in {"newPayload", "getPayload"}
      => ~(Required(r.ask.of) \subseteq r.used.methods)
ReadyServes == [][ReadyServesStep]_methodVars

(* What the node believes of the engine stays true of it: no answer from before
   the caches were cleared comes back into them, and every call goes by a method
   the engine and the fork of the payload have. *)
MethodsSound ==
  [](\A c \in Asker : AfterClear(c)) /\ RequestsFit /\ PayloadOfFork /\ ReadyServes

Calls(c) == request[c].at # "rest"

(* Every call returns, with the engine answering or not: no caller waits   *)
(* for ever on the lock of a cache.                                        *)
EngineCallsEnd ==
  \A c \in Asker : Calls(c) ~> ~Calls(c)
=============================================================================
