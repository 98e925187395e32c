-------------------------------- MODULE Dispatch --------------------------------
(***************************************************************************)
(* hooks.GlobalHandler with the table of jekyll/jekyll.go: every delivery  *)
(* is validated, parsed and handed to the handlers of its event type, each *)
(* in a goroutine of its own.  A pull_request event fires its handlers a   *)
(* second time, with the payload parsed as an issue_comment.  A panic in a *)
(* handler ends the process, with whatever the other handlers were doing.  *)
(* What a handler does is one step here: its own module has the rest, auth *)
(* that of the lookups in which a handler may end the process.             *)
(***************************************************************************)
EXTENDS Calls, Sequences

CONSTANTS
  Deliveries,
  Events,   \* what GitHub sends: the type, signature, syntax and fields of a request
  EventHandlers, \* EventHandlers[type]: the handlers of an event type, in order
  AcceptedTypes, \* AcceptedTypes[h]: the payloads that pass h's type assertion
  Reads,    \* Reads[h]: what h dereferences without a check
  Authenticates, \* the handlers that look up team memberships (auth)
  MaxRestarts \* bound: restarts of the process

VARIABLES
  EventOf,  \* EventOf[d]: the event of delivery d
  up,
  restarts,
  dispatchPc, \* dispatchPc[d]: where ServeHTTP is with d
  fired,    \* fired[d]: the payload types with which d's handlers run, per handler
  acted,    \* history: acted[d][h]: how often h acted on d
  answers,  \* answers[d]: the status of the HTTP response
  stopped,  \* history: deliveries whose handler stopped the process, and how
  lost      \* history: deliveries that found no server, or that it stopped with

dispatchVars == <<EventOf, up, restarts, dispatchPc, fired, acted, answers, stopped, lost>>

AllHandlers == DOMAIN AcceptedTypes
HandlersOf(type) ==
  UNION {{EventHandlers[t][i] : i \in DOMAIN EventHandlers[t]} : t \in DOMAIN EventHandlers \cap {type}}

\* The handlers that are fired twice refuse the payload of the second time.
ASSUME DispatchAssumption ==
  /\ \A h \in HandlersOf("pull_request") : "issue_comment" \notin AcceptedTypes[h]
  /\ \A type \in DOMAIN EventHandlers : HandlersOf(type) \subseteq AllHandlers
  /\ "issue_comment" \in DOMAIN EventHandlers
  /\ Authenticates \subseteq AllHandlers

DispatchInit ==
  /\ EventOf \in [Deliveries -> Events]
  /\ up = TRUE
  /\ restarts = 0
  /\ dispatchPc = [d \in Deliveries |-> "sent"]
  /\ fired = [d \in Deliveries |-> {}]
  /\ acted = [d \in Deliveries |-> [h \in AllHandlers |-> 0]]
  /\ answers = [d \in Deliveries |-> 0]
  /\ stopped = {}
  /\ lost = {}

GotoDispatch(d, from, to) ==
  /\ up
  /\ dispatchPc[d] = from
  /\ dispatchPc' = [dispatchPc EXCEPT ![d] = to]

Answer(d, status) == answers' = [answers EXCEPT ![d] = status]

\* No server: GitHub does not send the delivery again by itself.
LoseDelivery(d) ==
  /\ ~up
  /\ dispatchPc[d] = "sent"
  /\ dispatchPc' = [dispatchPc EXCEPT ![d] = "done"]
  /\ lost' = lost \cup {d}
  /\ UNCHANGED <<EventOf, up, restarts, fired, acted, answers, stopped, errors>>

\* Without a secret, the body is decoded as a JSON string, which no event is.
ServeHTTP(d) ==
  /\ \/ /\ EventOf[d].signature = "valid"
        /\ GotoDispatch(d, "sent", "payload") /\ UNCHANGED answers
     \/ /\ EventOf[d].signature = "invalid"
        /\ GotoDispatch(d, "sent", "done") /\ Answer(d, 403)
     \/ /\ EventOf[d].signature = "no-secret"
        /\ GotoDispatch(d, "sent", "done") /\ Answer(d, 400)
  /\ UNCHANGED <<EventOf, up, restarts, fired, acted, stopped, lost, errors>>

\* Mutant of FireHandlers: every goroutine gets the last handler of the table.
FireHandlers_Last(d, handlers, type) ==
  fired' = IF EventOf[d].parses
             THEN [fired EXCEPT ![d] = @ \cup {<<EventHandlers[EventOf[d].type][Len(EventHandlers[EventOf[d].type])], type>>}]
             ELSE fired

\* One goroutine for each handler, when the payload can be parsed as that type.
FireHandlers(d, handlers, type) ==
  fired' = IF EventOf[d].parses
             THEN [fired EXCEPT ![d] = @ \cup {<<h, type>> : h \in handlers}]
             ELSE fired

\* Mutant of SecondHandlers: the handlers that the variable's name speaks of.
SecondHandlers_Comment(type) == HandlersOf("issue_comment")

\* "issueCommentHandlers" are looked up with the event's own type.
SecondHandlers(type) == HandlersOf(type)

HandlePayload(d) ==
  LET type == EventOf[d].type
  IN /\ \/ /\ type = "ping"
           /\ GotoDispatch(d, "payload", "done")
           /\ Answer(d, IF EventOf[d].parses THEN 200 ELSE 500)
           /\ UNCHANGED fired
        \/ /\ type \notin DOMAIN EventHandlers \cup {"ping"}
           /\ GotoDispatch(d, "payload", "done") /\ Answer(d, 200)
           /\ UNCHANGED fired
        \/ /\ type \in DOMAIN EventHandlers
           /\ GotoDispatch(d, "payload", IF type = "pull_request" THEN "again" ELSE "answer")
           /\ FireHandlers(d, HandlersOf(type), type)
           /\ UNCHANGED answers
     /\ UNCHANGED <<EventOf, up, restarts, acted, stopped, lost, errors>>

\* Mutant of FireAgain: the payload is parsed as what it is, once more.
FireAgain_OwnType(d) ==
  /\ GotoDispatch(d, "again", "answer")
  /\ FireHandlers(d, SecondHandlers(EventOf[d].type), EventOf[d].type)
  /\ UNCHANGED <<EventOf, up, restarts, acted, answers, stopped, lost, errors>>

FireAgain(d) ==
  /\ GotoDispatch(d, "again", "answer")
  /\ FireHandlers(d, SecondHandlers(EventOf[d].type), "issue_comment")
  /\ UNCHANGED <<EventOf, up, restarts, acted, answers, stopped, lost, errors>>

AnswerFired(d) ==
  /\ GotoDispatch(d, "answer", "done")
  /\ Answer(d, 200)
  /\ UNCHANGED <<EventOf, up, restarts, fired, acted, stopped, lost, errors>>

\* What the payload of d has when it is parsed as type.
FieldsOf(d, type) == IF type = EventOf[d].type THEN EventOf[d].fields ELSE {}

Admits(d, h, type) == <<h, type>> \in fired[d] /\ type \in AcceptedTypes[h]
HasAll(d, h, type)  == Reads[h] \subseteq FieldsOf(d, type)

\* A lookup of a membership: two at the same time write one map.
LooksUp(d, h, type) == Admits(d, h, type) /\ HasAll(d, h, type) /\ h \in Authenticates

AnotherLooksUp(d, h, type) ==
  \E e \in Deliveries, g \in AllHandlers, t \in DOMAIN EventHandlers :
    <<e, g, t>> # <<d, h, type>> /\ LooksUp(e, g, t)

\* The process ends, and with it all that is not done.
Stop(d, cause) ==
  /\ up' = FALSE
  /\ fired' = [e \in Deliveries |-> {}]
  /\ stopped' = stopped \cup {<<d, cause>>}
  /\ lost' = lost \cup {e \in Deliveries : dispatchPc[e] # "sent"}
  /\ dispatchPc' = [e \in Deliveries |-> IF dispatchPc[e] = "sent" THEN "sent" ELSE "done"]
  /\ UNCHANGED acted

Return(d, h, type) ==
  /\ fired' = [fired EXCEPT ![d] = @ \ {<<h, type>>}]
  /\ UNCHANGED <<up, stopped, lost, dispatchPc>>

\* A handler whose goroutine gets to run.  It refuses a payload of another type,
\* panics when the payload lacks something that it reads, and acts otherwise: unless
\* a lookup gets no response, whose status is read before the error is (auth.go:61),
\* or writes the map while another one does (auth.go:62, 70).
Handle(d, h, type) ==
  /\ up
  /\ <<h, type>> \in fired[d]
  /\ \/ ~Admits(d, h, type) /\ Return(d, h, type) /\ UNCHANGED <<acted, errors>>
     \/ /\ Admits(d, h, type) /\ ~HasAll(d, h, type)
        /\ Stop(d, "null") /\ UNCHANGED errors
     \/ /\ Admits(d, h, type) /\ HasAll(d, h, type) /\ Return(d, h, type)
        /\ acted' = [acted EXCEPT ![d][h] = @ + 1]
        /\ UNCHANGED errors
     \/ LooksUp(d, h, type) /\ Stop(d, "response") /\ Fail
     \/ /\ LooksUp(d, h, type) /\ AnotherLooksUp(d, h, type)
        /\ Stop(d, "race") /\ UNCHANGED errors
  /\ UNCHANGED <<EventOf, restarts, answers>>

Restart ==
  /\ ~up
  /\ restarts < MaxRestarts
  /\ restarts' = restarts + 1
  /\ up' = TRUE
  /\ UNCHANGED <<EventOf, dispatchPc, fired, acted, answers, stopped, lost, errors>>

DispatchStep ==
  \/ \E d \in Deliveries :
       LoseDelivery(d) \/ ServeHTTP(d) \/ HandlePayload(d) \/ FireAgain(d) \/ AnswerFired(d)
  \/ \E d \in Deliveries, h \in AllHandlers, type \in DOMAIN EventHandlers : Handle(d, h, type)

DispatchNext == DispatchStep \/ Restart

DispatchSpec == DispatchInit /\ [][DispatchNext]_dispatchVars

(***************************************************************************)
(* The inductive invariant: a handler that is still to run on a payload    *)
(* that it accepts has not acted.                                          *)
(***************************************************************************)
DispatchTypeOK ==
  /\ EventOf \in [Deliveries -> Events]
  /\ up \in BOOLEAN
  /\ dispatchPc \in [Deliveries -> {"sent", "payload", "again", "answer", "done"}]
  /\ fired \in [Deliveries -> SUBSET (AllHandlers \X DOMAIN EventHandlers)]
  /\ acted \in [Deliveries -> [AllHandlers -> Nat]]
  /\ stopped \subseteq Deliveries \X {"null", "response", "race"} /\ lost \subseteq Deliveries

FiredOwn ==
  \A d \in Deliveries :
    /\ dispatchPc[d] \in {"sent", "payload"} =>
         fired[d] = {} /\ \A h \in AllHandlers : acted[d][h] = 0
    /\ dispatchPc[d] = "again" => EventOf[d].type = "pull_request"
    /\ \A f \in fired[d] :
         /\ f[1] \in HandlersOf(EventOf[d].type)
         /\ f[2] = EventOf[d].type => acted[d][f[1]] = 0
         /\ f[2] # EventOf[d].type => EventOf[d].type = "pull_request" /\ f[2] = "issue_comment"

\* A delivery makes a handler act at most once, and only a handler of its own event
\* type, although pull_request handlers are fired twice (global_handler.go:75-83).
ActsOnce ==
  \A d \in Deliveries, h \in AllHandlers :
    acted[d][h] > 0 => acted[d][h] = 1 /\ h \in HandlersOf(EventOf[d].type)

\* A handler that stops the process has its cause in its own kind of event, never in
\* the payload that a pull_request delivery is parsed as the second time: a text that
\* is null (affinity/handler.go:91, 122, 153, has_pull_request.go:23,
\* merge_and_label.go:138), a membership looked up without a response (auth.go:61), or
\* two of them looked up at the same time, for one delivery by two handlers or for
\* two deliveries (auth.go:62, 70).
StopsHaveTheirCause ==
  \A s \in stopped :
    LET own(d) == HandlersOf(EventOf[d].type)
    IN /\ s[2] = "null" => \E h \in own(s[1]) : ~HasAll(s[1], h, EventOf[s[1]].type)
       /\ s[2] = "response" => own(s[1]) \cap Authenticates # {}
       /\ s[2] = "race" =>
            \E h \in own(s[1]) \cap Authenticates, e \in Deliveries :
              \E g \in own(e) \cap Authenticates : <<e, g>> # <<s[1], h>>

DispatchInv == DispatchTypeOK /\ FiredOwn /\ ActsOnce /\ StopsHaveTheirCause

\* Each handler of a delivery's event type gets to act on it, unless the process
\* stops while it deals with the delivery, or is down when it comes
\* (global_handler.go:75-106).
HandlersAct ==
  \A d \in Deliveries :
    EventOf[d].signature = "valid" /\ EventOf[d].parses =>
      []<>(d \in lost \/ \A h \in HandlersOf(EventOf[d].type) : acted[d][h] > 0)
=============================================================================
