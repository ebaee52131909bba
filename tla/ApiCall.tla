------------------------------ MODULE ApiCall ------------------------------
(***************************************************************************)
(* One request through the APIs of a service                               *)
(* (core/api/base.py, route.py, chain.py, hook.py, endpoint.py).           *)
(*                                                                         *)
(* APIs are mounted in each other: the first one is the root, the last one *)
(* has the endpoint that the path of the request names.  Every API, and    *)
(* the endpoint, may have a plugin that answers, fails or asks for the     *)
(* request to be handled once more; every route has hooks.  What is still  *)
(* unmatched of the path is kept in the context of the request, which all  *)
(* APIs and all repetitions share.                                         *)
(*                                                                         *)
(* A plugin or a hook may do whatever its interface allows.                *)
(***************************************************************************)
EXTENDS Naturals, FiniteSets

CONSTANTS Depth,           \* APIs from the root to the one with the endpoint
          MaxLoops,        \* Preference.api_max_retry_loops
          PluggedLayers    \* the sets of layers with a plugin to consider

\* Layer Depth + 1 is the endpoint.
ASSUME CallAssumption ==
  /\ Depth \in Nat \ {0}
  /\ MaxLoops \in Nat \ {0}
  /\ PluggedLayers \subseteq SUBSET (1..Depth + 1)

VARIABLES plugged,    \* layers with a plugin
          own,        \* APIs that answer this method at their own path too
          options,    \* it is an OPTIONS request
          layer,      \* the layer that runs
          stage,      \* what it does next
          rest,       \* segments of the path that are still unmatched
          caller,     \* the API whose endpoint is called, 0 before there is one
          index,      \* [layers -> retry_index of its loop]
          guarded,    \* APIs whose before hooks passed for the current repetition
          executed,   \* APIs whose endpoint function ran
          missed,     \* some API found no route
          restarted   \* the plugin of an API asked for a repetition

callVars == <<plugged, own, options, layer, stage, rest, caller, index, guarded,
              executed, missed, restarted>>
request == <<plugged, own, options>>
history == <<guarded, executed, missed, restarted>>

Layers == 1..Depth + 1
IsEndpoint(l) == l = Depth + 1

CallInit ==
  /\ plugged \in PluggedLayers
  /\ own \in SUBSET (1..Depth)
  /\ options \in BOOLEAN
  /\ layer = 1 /\ stage = "request"
  /\ rest = Depth
  /\ caller = 0
  /\ index = [l \in Layers |-> 0]
  /\ guarded = {} /\ executed = {} /\ missed = FALSE /\ restarted = FALSE

---------------------------------------------------------------------------
(* How a layer ends *)

Outer(l) == IF IsEndpoint(l) THEN caller ELSE l - 1

\* the answer goes to the after hooks of the API outside
Returns ==
  IF layer = 1 THEN stage' = "answered" /\ layer' = 1
               ELSE stage' = "after" /\ layer' = Outer(layer)

\* the error goes to the plugin of the API outside
Escapes ==
  IF layer = 1 THEN stage' = "failed" /\ layer' = 1
               ELSE stage' = "error" /\ layer' = Outer(layer)

\* an error that leaves the plugins of an API meets its error hooks first
LeavesPlugins ==
  IF IsEndpoint(layer) THEN Escapes ELSE stage' = "hook" /\ layer' = layer

\* The plugin returned a request: once more, up to the limit.  The error of
\* the limit is raised behind the plugin's own error handler.
Repeats ==
  /\ index' = [index EXCEPT ![layer] = @ + 1]
  /\ IF index[layer] + 1 >= MaxLoops
     THEN LeavesPlugins /\ UNCHANGED <<guarded, restarted>>
     ELSE /\ stage' = "request" /\ layer' = layer
          /\ restarted' = (restarted \/ ~IsEndpoint(layer))
          /\ guarded' = {l \in guarded : l < layer}

---------------------------------------------------------------------------
(* The loop of a layer: api_handler *)

\* process_request passes the request on, answers it, or raises
ProcessRequest ==
  /\ stage = "request"
  /\ \/ stage' = IF IsEndpoint(layer) THEN "execute" ELSE "resolve"
     \/ layer \in plugged /\ stage' \in {"response", "error"}
  /\ UNCHANGED <<request, layer, rest, caller, index, history>>

\* process_response hands the answer on, asks for a repetition, or raises;
\* it is given a response, which is not rendered again
ProcessResponse ==
  /\ stage = "response"
  /\ \/ /\ IF layer \in plugged \/ IsEndpoint(layer) THEN Returns
           ELSE stage' = "render" /\ layer' = layer
        /\ UNCHANGED <<index, guarded, restarted>>
     \/ layer \in plugged /\ Repeats
     \/ layer \in plugged /\ stage' = "error" /\ UNCHANGED <<layer, index, guarded, restarted>>
  /\ UNCHANGED <<request, rest, caller, executed, missed>>

\* handle_error lets the error pass or raises another, answers, or asks for a repetition
HandleError ==
  /\ stage = "error"
  /\ \/ LeavesPlugins /\ UNCHANGED <<index, guarded, restarted>>
     \/ /\ layer \in plugged
        /\ IF IsEndpoint(layer) THEN Returns ELSE stage' = "render" /\ layer' = layer
        /\ UNCHANGED <<index, guarded, restarted>>
     \/ layer \in plugged /\ Repeats
  /\ UNCHANGED <<request, rest, caller, executed, missed>>

\* _make_response of an API, which is behind its error hooks
Render ==
  /\ stage = "render"
  /\ Returns \/ Escapes
  /\ UNCHANGED <<request, rest, caller, index, history>>

\* _handle_error: a hook for the error answers, or the error goes on (or the hook raises)
ErrorHook ==
  /\ stage = "hook"
  /\ \/ stage' = "render" /\ layer' = layer
     \/ Escapes
  /\ UNCHANGED <<request, rest, caller, index, history>>

---------------------------------------------------------------------------
(* What an API does inside of its loop *)

IsChild == rest = Depth + 1 - layer       \* what is left names the next API or the endpoint
IsOwn == rest = 0 /\ layer \in own
HasEndpoint == IsOwn \/ (IsChild /\ layer = Depth)

\* mutant: what an API has matched of the path is not taken off
ResolveKeepsPath ==
  /\ stage = "resolve"
  /\ \/ /\ IsChild \/ IsOwn
        /\ rest' = IF HasEndpoint THEN 0 ELSE rest
        /\ caller' = IF HasEndpoint THEN layer ELSE 0
        /\ stage' = "before"
        /\ UNCHANGED missed
     \/ /\ ~IsChild /\ ~IsOwn
        /\ stage' = "error"
        /\ missed' = TRUE
        /\ UNCHANGED <<rest, caller>>
  /\ UNCHANGED <<request, layer, index, guarded, executed, restarted>>

\* _resolve: a mounted API leaves the rest of the path in the context, an endpoint nothing
Resolve ==
  /\ stage = "resolve"
  /\ \/ /\ IsChild \/ IsOwn
        /\ rest' = IF HasEndpoint THEN 0 ELSE rest - 1
        /\ caller' = IF HasEndpoint THEN layer ELSE 0
        /\ stage' = "before"
        /\ UNCHANGED missed
     \/ /\ ~IsChild /\ ~IsOwn
        /\ stage' = "error"
        /\ missed' = TRUE
        /\ UNCHANGED <<rest, caller>>
  /\ UNCHANGED <<request, layer, index, guarded, executed, restarted>>

\* mutant: hooks are served only where an endpoint is
BeforeHooksOfEndpoints ==
  /\ stage = "before"
  /\ IF options
     THEN stage' = (IF caller = layer THEN "response" ELSE "serve") /\ UNCHANGED guarded
     ELSE \/ stage' = "serve"
             /\ guarded' = IF caller = layer THEN guarded \cup {layer} ELSE guarded
          \/ stage' = "error" /\ UNCHANGED guarded
  /\ UNCHANGED <<request, layer, rest, caller, index, executed, missed, restarted>>

\* route.serve: no hooks for OPTIONS, which the route of an endpoint answers itself
BeforeHooks ==
  /\ stage = "before"
  /\ IF options
     THEN stage' = (IF caller = layer THEN "response" ELSE "serve") /\ UNCHANGED guarded
     ELSE \/ stage' = "serve" /\ guarded' = guarded \cup {layer}
          \/ stage' = "error" /\ UNCHANGED guarded
  /\ UNCHANGED <<request, layer, rest, caller, index, executed, missed, restarted>>

\* __serve__: an instance of the mounted API, whose properties may not parse,
\* or the chain of the endpoint
Serve ==
  /\ stage = "serve"
  /\ \/ /\ layer' = IF caller = layer THEN Depth + 1 ELSE layer + 1
        /\ stage' = "request"
        /\ index' = [index EXCEPT ![layer'] = 0]
     \/ caller # layer /\ stage' = "error" /\ UNCHANGED <<layer, index>>
  /\ UNCHANGED <<request, rest, caller, history>>

\* the endpoint parses the request and runs, or raises
Execute ==
  /\ stage = "execute"
  /\ executed' = executed \cup {caller}
  /\ stage' \in {"response", "error"}
  /\ UNCHANGED <<request, layer, rest, caller, index, guarded, missed, restarted>>

\* after hooks may replace the answer or raise
AfterHooks ==
  /\ stage = "after"
  /\ stage' \in {"response", "error"}
  /\ UNCHANGED <<request, layer, rest, caller, index, history>>

CallNext ==
  \/ ProcessRequest \/ ProcessResponse \/ HandleError \/ Render \/ ErrorHook
  \/ Resolve \/ BeforeHooks \/ Serve \/ Execute \/ AfterHooks

CallSpec == CallInit /\ [][CallNext]_callVars

---------------------------------------------------------------------------
(* Properties *)

\* When an endpoint runs, the before hooks of all APIs above it have passed
\* since the request was last repeated in a layer above them (route.py:194-211).
RunIsGuarded ==
  [][stage = "execute" /\ stage' # "execute" => guarded = 1..caller /\ ~options]_callVars

\* The endpoint that the path names runs and no other, and no API on the way
\* misses its route, as long as only endpoints have their requests repeated: an
\* API whose plugin asks for another round looks for its route in what the first
\* round left of the path (base.py:614, request/var.py:133).
NamedEndpointRuns == restarted \/ (~missed /\ executed \subseteq {Depth})
=============================================================================
