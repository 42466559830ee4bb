----------------------------- MODULE Iterparse -----------------------------
(***************************************************************************)
(* Iterparse (crates/core/src/iterparse.rs): the same events as an iterator *)
(* of owned items, each with the path of the element it is about.  A path  *)
(* is a sequence of <<name, index>>, the index 0 where none is printed.    *)
(* PushFrameUncounted is an altered form of PushFrame, for a check.        *)
(***************************************************************************)
EXTENDS Naturals, Sequences, SequencesExt

VARIABLES stack,          \* frames [name, children], children a count by name
          items, done
iterVars == <<stack, items, done>>

IterInit == stack = <<>> /\ items = <<>> /\ done = FALSE

(* A map of counters, with none for the names not met yet.                  *)
NoChildren == [n \in {} |-> 0]
Count(children, name) == IF name \in DOMAIN children THEN children[name] ELSE 0
Bump(children, name) ==
  [n \in DOMAIN children \cup {name} |->
     IF n = name THEN Count(children, n) + 1 ELSE children[n]]

(* The index is the count the parent's frame holds when the path is asked.  *)
current_path(frames) ==
  [i \in DOMAIN frames |->
     LET n == IF i = 1 THEN 0 ELSE Count(frames[i - 1].children, frames[i].name)
     IN <<frames[i].name, IF n >= 2 THEN n ELSE 0>>]

Yield(kind, frames, depth) ==
  items' = Append(items, [kind |-> kind, path |-> current_path(frames), depth |-> depth])

PushFrameUncounted(frames, name) == Append(frames, [name |-> name, children |-> NoChildren])
PushFrame(frames, name) ==
  LET counted == IF frames = <<>> THEN <<>>
                 ELSE [frames EXCEPT ![Len(frames)].children = Bump(@, name)]
  IN Append(counted, [name |-> name, children |-> NoChildren])

IterStart(name) ==
  LET frames == PushFrame(stack, name)
  IN /\ ~done
     /\ stack' = frames
     /\ Yield("Start", frames, Len(frames))
     /\ UNCHANGED done

IterEnd ==
  /\ ~done
  /\ Yield("End", stack, Len(stack))
  /\ stack' = Front(stack)
  /\ UNCHANGED done

(* Comments and instructions carry no path, unexpanded references nothing.  *)
IterLeaf(kind) ==
  /\ ~done
  /\ CASE kind \in {"Text", "CData"} -> Yield(kind, stack, Len(stack))
       [] kind \in {"Comment", "Pi"} -> Yield(kind, <<>>, Len(stack))
       [] kind = "EntityRef"         -> UNCHANGED items
  /\ UNCHANGED <<stack, done>>

(* End of input, or the error that is the last item.                        *)
IterStop == ~done /\ done' = TRUE /\ UNCHANGED <<stack, items>>
IterFail ==
  /\ ~done /\ done' = TRUE
  /\ items' = Append(items, [kind |-> "Err", path |-> <<>>, depth |-> Len(stack)])
  /\ UNCHANGED stack
=============================================================================
