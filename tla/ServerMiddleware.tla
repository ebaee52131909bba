-------------------------- MODULE ServerMiddleware --------------------------
(***************************************************************************)
(* A request passes the service's middlewares, an API or a view of the web *)
(* framework, and the middlewares again.  Every backend has its own loop   *)
(* (core/server/backends/): flask, sanic and django hand the request and   *)
(* the response across the framework in two context variables, which       *)
(* belong to a thread or a connection and outlive the request; starlette   *)
(* does so with the request, tornado calls the API itself.                 *)
(*                                                                         *)
(* One thread or connection serves requests one after another.  Requests   *)
(* are numbered; a response is the number of the request it answers.       *)
(* What the frameworks do with an exception is taken from how the loops    *)
(* rely on it: django and sanic turn one of a view into a response.        *)
(***************************************************************************)
EXTENDS Naturals

CONSTANTS Middlewares,  \* how many middlewares are installed
          MaxServed     \* bound: requests on this thread

ASSUME ServerAssumption == Middlewares \in Nat \ {0} /\ MaxServed \in Nat

VARIABLES backend,         \* the framework
          currentRequest,  \* _current_request: [of, version], Nobody when it is unset
          currentResponse, \* _current_response: a number, 0 when it is unset
          serving,         \* the request under way
          served,          \* its number
          tainted          \* ghost: an earlier request failed to reset the context

serverVars == <<backend, currentRequest, currentResponse, serving, served, tainted>>

Backends == {"starlette", "django", "flask", "sanic", "tornado"}
Nobody   == [of |-> 0, version |-> 0]

\* version: how often a middleware put another Request in the place of this one;
\* handled: the Request the API was called with; got: what the client receives.
Fresh == [pc |-> "asking", at |-> 1, version |-> 0, handled |-> Nobody, raised |-> FALSE,
          response |-> 0, updated |-> FALSE, got |-> 0]

ServerInit ==
  /\ backend \in Backends
  /\ currentRequest = Nobody /\ currentResponse = 0
  /\ serving = [Fresh EXCEPT !.pc = "done"] /\ served = 0
  /\ tainted = FALSE

Ours(v) == [of |-> served, version |-> v]
-----------------------------------------------------------------------------
\* The request arrives; flask publishes it before the middlewares see it.
Arrive ==
  /\ serving.pc = "done" /\ served < MaxServed
  /\ served' = served + 1 /\ serving' = Fresh
  /\ currentRequest' = IF backend = "flask" THEN Ours(0)' ELSE currentRequest
  /\ tainted' = (tainted /\ (currentResponse # 0 \/ (backend = "sanic" /\ currentRequest # Nobody)))
  /\ UNCHANGED <<backend, currentResponse>>

\* process_request lets the request pass or puts another in its place.
PassRequest(replaced) ==
  /\ serving.pc = "asking" /\ serving.at <= Middlewares
  /\ serving' = [serving EXCEPT !.at = @ + 1, !.version = IF replaced THEN @ + 1 ELSE @]
  /\ UNCHANGED <<backend, currentRequest, currentResponse, served, tainted>>

\* process_request returns a Response: the handler is skipped.
AnswerEarly ==
  /\ serving.pc = "asking" /\ serving.at <= Middlewares
  /\ IF backend = "sanic"
     THEN serving' = [serving EXCEPT !.pc = "handled"]
     ELSE serving' = [serving EXCEPT !.pc = "responding", !.at = 1,
                                     !.response = served, !.updated = TRUE]
  /\ IF backend = "django"
     THEN currentRequest' = Nobody /\ currentResponse' = 0
     ELSE UNCHANGED <<currentRequest, currentResponse>>
  /\ UNCHANGED <<backend, served, tainted>>

\* process_request raises: outside every try of starlette and django.
RequestRaises ==
  /\ serving.pc = "asking" /\ serving.at <= Middlewares
  /\ serving' = CASE backend \in {"starlette", "django"} ->
                       [serving EXCEPT !.pc = "done", !.got = served]
                  [] backend = "sanic" -> [serving EXCEPT !.pc = "handled"]
                  [] OTHER -> [serving EXCEPT !.pc = "responding", !.at = 1, !.response = served]
  /\ UNCHANGED <<backend, currentRequest, currentResponse, served, tainted>>

Published == IF backend \in {"starlette", "django", "sanic"} THEN Ours(serving.version)
                                                            ELSE currentRequest

\* The API: called with the published request, it leaves its response for the
\* middlewares; rendering it for the framework may raise.
CallApi(renders) ==
  /\ serving.pc = "asking" /\ serving.at > Middlewares
  /\ LET request == IF backend = "tornado" THEN Ours(serving.version) ELSE Published
     IN /\ serving' = [serving EXCEPT !.pc = "handled", !.handled = request,
                          !.raised = ~renders,
                          !.response = IF backend = "starlette" THEN request.of ELSE 0]
        /\ currentResponse' = IF backend \in {"django", "flask", "sanic"} THEN request.of
                                                                        ELSE currentResponse
  /\ currentRequest' = Published
  /\ UNCHANGED <<backend, served, tainted>>

\* A view of the framework itself answers, or raises.
CallView(raises) ==
  /\ serving.pc = "asking" /\ serving.at > Middlewares /\ backend # "tornado"
  /\ serving' = [serving EXCEPT !.pc = "handled", !.raised = raises]
  /\ currentRequest' = Published
  /\ UNCHANGED <<backend, currentResponse, served, tainted>>

\* The response that goes through the middlewares: the one the API left, or one
\* made around the framework's.
Collected ==
  CASE backend = "starlette" ->
         IF serving.raised \/ serving.response = 0 THEN served ELSE serving.response
    [] backend = "django" -> IF currentResponse # 0 THEN currentResponse ELSE served
    [] backend = "flask"  -> IF serving.raised \/ currentResponse = 0 THEN served
                                                                    ELSE currentResponse
    [] backend = "sanic"  -> IF currentResponse # 0 THEN currentResponse
                             ELSE IF currentRequest # Nobody THEN currentRequest.of ELSE served
    [] OTHER -> served

\* flask resets the context only when the handler returned, sanic when the last
\* middleware is through.
Resets == backend \in {"starlette", "django"} \/ (backend = "flask" /\ ~serving.raised)

\* Mutant: the response stays in its context variable.
CollectKeeps ==
  /\ serving.pc = "handled"
  /\ serving' = [serving EXCEPT !.pc = "responding", !.at = 1, !.response = Collected]
  /\ currentRequest'  = IF Resets THEN Nobody ELSE currentRequest
  /\ UNCHANGED <<backend, currentResponse, served, tainted>>

Collect ==
  /\ serving.pc = "handled"
  /\ serving' = [serving EXCEPT !.pc = "responding", !.at = 1, !.response = Collected]
  /\ currentRequest'  = IF Resets THEN Nobody ELSE currentRequest
  /\ currentResponse' = IF Resets /\ backend # "starlette" THEN 0 ELSE currentResponse
  /\ tainted' = (tainted \/ (backend = "flask" /\ currentResponse' # 0))
  /\ UNCHANGED <<backend, served>>

\* process_response lets the response pass, or replaces it.
PassResponse(replaced) ==
  /\ serving.pc = "responding" /\ serving.at <= Middlewares
  /\ serving' = [serving EXCEPT !.at = @ + 1, !.updated = @ \/ replaced]
  /\ UNCHANGED <<backend, currentRequest, currentResponse, served, tainted>>

\* process_response raises: the other middlewares see nothing of it, and sanic
\* does not reset the context.
ResponseRaises ==
  /\ serving.pc = "responding" /\ serving.at <= Middlewares
  /\ serving' = [serving EXCEPT !.pc = "done", !.got = served]
  /\ tainted' = (tainted \/ backend = "sanic")
  /\ UNCHANGED <<backend, currentRequest, currentResponse, served>>

\* The framework's response is rebuilt if a middleware answered.  starlette
\* raises what the handler raised instead; tornado always writes the Response.
Finish ==
  /\ serving.pc = "responding" /\ serving.at > Middlewares
  /\ serving' = [serving EXCEPT !.pc = "done",
       !.got = IF backend = "tornado" \/ (serving.updated /\ ~(backend = "starlette" /\ serving.raised))
               THEN serving.response ELSE served]
  /\ IF backend = "sanic"
     THEN currentRequest' = Nobody /\ currentResponse' = 0
     ELSE UNCHANGED <<currentRequest, currentResponse>>
  /\ UNCHANGED <<backend, served, tainted>>

ServerNext ==
  \/ Arrive \/ AnswerEarly \/ RequestRaises
  \/ \E yes \in BOOLEAN : PassRequest(yes) \/ CallApi(yes) \/ CallView(yes) \/ PassResponse(yes)
  \/ Collect \/ ResponseRaises \/ Finish

ServerSpec == ServerInit /\ [][ServerNext]_serverVars
-----------------------------------------------------------------------------
\* An API is called with the request of its own client, as the middlewares left
\* it; flask alone hands on the one they were given.
CalledWithOwn ==
  serving.handled # Nobody =>
    serving.handled = Ours(IF backend = "flask" THEN 0 ELSE serving.version)

\* Middlewares and client see the response of this request.
AnsweredWithOwn ==
  /\ serving.pc = "responding" => serving.response = served
  /\ serving.pc = "done"       => serving.got \in {0, served}

\* No request is answered with, logged as or turned into another one of its thread,
\* unless one that failed left its response behind: flask (wsgi_app, flask.py:230)
\* when the API's response cannot be rendered, sanic (on_response, sanic.py:76)
\* when a middleware raises.
OwnExchange == CalledWithOwn /\ (~tainted => AnsweredWithOwn)
=============================================================================
