------------------------------ MODULE Readback ------------------------------
(***************************************************************************)
(* PendingReadback of engine/src/readback.rs: a MAP_READ buffer the GPU    *)
(* grid is copied into, and the four-state machine that brings its bytes   *)
(* back.  Every PendingReadback is an object of its own: the engine may    *)
(* drop one while the browser still holds its map callback, and create     *)
(* another.  Readbacks is the pool of objects; an object stays live while  *)
(* the engine or a map callback holds its Arcs, and is "Free" otherwise.   *)
(*                                                                         *)
(* The buffer of an object is mapped, or waiting to be, exactly while its  *)
(* state is "Mapping".  The bytes the callback stores in `data` are those  *)
(* of the buffer, which nothing writes until they are taken.               *)
(***************************************************************************)
EXTENDS GridData

CONSTANTS
  Readbacks,    \* bound: readback objects alive at one time
  NoReadback    \* the engine's pending_to_cpu when it holds none

ASSUME ReadbackAssumption == NoReadback \notin Readbacks

VARIABLE readbacks

ReadbackStates == {"Free", "NeedsRecord", "AwaitingSubmit", "Mapping", "Done"}

ReadbackTypeOK ==
  readbacks \in [Readbacks -> [state : ReadbackStates,
                               grid_size : Sizes,
                               buffer : Grids]]

Unallocated == [state |-> "Free",
                grid_size |-> InitialGrid,
                buffer |-> Blank(InitialGrid)]

ReadbackInit == readbacks = [r \in Readbacks |-> Unallocated]

IsFree(r) == readbacks[r].state = "Free"

\* PendingReadback::new; WebGPU zeroes a fresh buffer.
Fresh(n) == [state |-> "NeedsRecord", grid_size |-> n, buffer |-> Blank(n)]

\* The pool once the engine lets go of p: the callback of a map in flight
\* keeps its object alive, anything else is freed.
Released(p) ==
  [r \in Readbacks |-> IF r = p /\ readbacks[r].state # "Mapping"
                         THEN Unallocated ELSE readbacks[r]]

\* Fault: a compare-exchange that expects the wrong state.
MapStartedUnrecorded(p) ==
  [r \in Readbacks |-> IF r = p /\ readbacks[r].state = "NeedsRecord"
                         THEN [readbacks[r] EXCEPT !.state = "Mapping"]
                         ELSE readbacks[r]]

\* try_start_map on the object the engine holds: the compare-exchange lets
\* only a recorded copy through to map_async.
MapStarted(p) ==
  [r \in Readbacks |-> IF r = p /\ readbacks[r].state = "AwaitingSubmit"
                         THEN [readbacks[r] EXCEPT !.state = "Mapping"]
                         ELSE readbacks[r]]

\* needs_record and mark_recorded.
NeedsRecord(p) == p \in Readbacks /\ readbacks[p].state = "NeedsRecord"

MarkRecorded(p) == [readbacks EXCEPT ![p].state = "AwaitingSubmit"]

\* take_if_done would return the data.
IsDone(p) == p \in Readbacks /\ readbacks[p].state = "Done"

\* The map callback of r when the engine holds p: it stores through r's own
\* Arcs, so it only reaches the engine when r is still the one held.
CallbackStores(r, p, s) ==
  /\ readbacks[r].state = "Mapping"
  /\ readbacks' = [readbacks EXCEPT ![r] =
                     IF r = p THEN [@ EXCEPT !.state = s] ELSE Unallocated]

MapSucceeds(r, p) == CallbackStores(r, p, "Done")

MapFails(r, p) == CallbackStores(r, p, "NeedsRecord")
=============================================================================
