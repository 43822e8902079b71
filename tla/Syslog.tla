------------------------------- MODULE Syslog -------------------------------
(***************************************************************************)
(* The slog handler of pkg/logging/syslog.go.  Goroutines derive handlers  *)
(* from each other and write records through them; all of them share one   *)
(* writer, which has a lock of its own, while each handler has a mutex.    *)
(*                                                                         *)
(* A handler's attributes are a slice of an array on the heap.  Text is    *)
(* abstracted to what it stands for and whether it has a line break.       *)
(***************************************************************************)
EXTENDS Integers, Sequences, FiniteSets

CONSTANTS
    Threads,
    Attrs,          \* attributes: key, and what the value contains
    EmptyAttr,      \* slog.Attr{}
    Groups,         \* names for WithGroup, "" among them
    Records,        \* level, message and attributes of a record
    MaxHandlers     \* bound on the handlers that are derived

Attr == [key : STRING, blank : BOOLEAN, broken : BOOLEAN]

GroupNames == Groups \ {""}

ASSUME SyslogAssumption ==
    /\ Attrs \subseteq Attr
    /\ EmptyAttr \in Attrs
    /\ Groups \subseteq STRING
    /\ Records \subseteq [level : Int, broken : BOOLEAN, attrs : Seq(Attr)]
    /\ MaxHandlers \in Nat \ {0}

VARIABLES
    heap,       \* arrays of grouped attributes
    handlers,   \* a handler: its group, its slice, and how it was derived
    mu,         \* handler -> its mutex is locked
    stage,      \* where a goroutine is in Handle
    line        \* its handler, its record, and the line it has made of them

logVars == <<heap, handlers, mu, stage, line>>

NoLine == [h |-> 0]

\* NewHandler.
LogInit ==
    /\ heap = << <<>> >>
    /\ handlers = <<[group |-> <<>>, array |-> 1, len |-> 0, path |-> <<>>]>>
    /\ mu = [h \in 1 .. MaxHandlers |-> FALSE]
    /\ stage = [t \in Threads |-> "idle"]
    /\ line = [t \in Threads |-> NoLine]

attrs(h) == SubSeq(heap[handlers[h].array], 1, handlers[h].len)

-----------------------------------------------------------------------------
(* Deriving.                                                               *)

\* The array a slice that is longer by some elements is in: a copy.
Extend_Append(h, added) ==
    LET old == heap[handlers[h].array]
        new == attrs(h) \o added
    IN  IF Len(new) <= Len(old)
        THEN [heap |-> [heap EXCEPT ![handlers[h].array] =
                            new \o SubSeq(old, Len(new) + 1, Len(old))],
              array |-> handlers[h].array]
        ELSE [heap |-> Append(heap, new \o new), array |-> Len(heap) + 1]
Extend(h, added) ==
    [heap |-> Append(heap, attrs(h) \o added), array |-> Len(heap) + 1]

\* A new handler, with the step that led to it.
Derive(h, group, added, step) ==
    LET e == Extend(h, added)
    IN  /\ Len(handlers) < MaxHandlers
        /\ heap' = e.heap
        /\ handlers' = Append(handlers, [group |-> group, array |-> e.array,
                                         len |-> handlers[h].len + Len(added),
                                         path |-> Append(handlers[h].path, step)])
        /\ UNCHANGED <<mu, stage, line>>

WithAttrs(h, a) ==
    Derive(h, handlers[h].group, <<[attr |-> a, group |-> handlers[h].group]>>,
           [op |-> "attr", attr |-> a])

\* An empty name returns the handler itself.
NewGroup(name) == name # ""

WithGroup(h, name) ==
    /\ NewGroup(name)
    /\ Derive(h, Append(handlers[h].group, name), <<>>, [op |-> "group", name |-> name])

-----------------------------------------------------------------------------
(* Handle.                                                                 *)

\* The place of i among the members of S, numbers; the k-th of them; and the
\* elements of s at these positions.
Rank(S, i) == Cardinality({j \in S : j <= i})
Nth(S, k) == CHOOSE i \in S : Rank(S, i) = k
Select(s, S) == [k \in 1 .. Cardinality(S) |-> s[Nth(S, k)]]

\* writeAttr: nothing for the empty attribute; a value with blanks is quoted,
\* which also escapes its line breaks.
Written(s) == {i \in DOMAIN s : s[i].attr # EmptyAttr}
writeAttr(ga) ==
    [key |-> Append(ga.group, ga.attr.key), broken |-> ga.attr.broken /\ ~ga.attr.blank]

\* Line breaks become blanks.
Sanitize(text) == [i \in DOMAIN text |-> [text[i] EXCEPT !.broken = FALSE]]

\* The attributes of the handler, each with its group, and those of the record.
AllAttrs(h, r) ==
    attrs(h) \o [i \in DOMAIN r.attrs |-> [attr |-> r.attrs[i], group |-> handlers[h].group]]

Format(h, r) ==
    LET named == Select(AllAttrs(h, r), Written(AllAttrs(h, r)))
    IN  Sanitize(<<[key |-> <<"msg">>, broken |-> r.broken]>>
                 \o [k \in DOMAIN named |-> writeAttr(named[k])])

\* slog.LevelError is 8, LevelWarn 4, LevelInfo 0.
Severity(level) ==
    CASE level >= 8 -> "Err"
      [] level \in 4 .. 7 -> "Warning"
      [] level \in 0 .. 3 -> "Info"
      [] OTHER -> "Debug"

Handle(t, h, r) ==
    /\ stage[t] = "idle"
    /\ stage' = [stage EXCEPT ![t] = "lock"]
    /\ line' = [line EXCEPT ![t] = [h |-> h, r |-> r, text |-> Format(h, r)]]
    /\ UNCHANGED <<heap, handlers, mu>>

Lock(t) ==
    /\ stage[t] = "lock" /\ ~mu[line[t].h]
    /\ mu' = [mu EXCEPT ![line[t].h] = TRUE]
    /\ stage' = [stage EXCEPT ![t] = Severity(line[t].r.level)]
    /\ UNCHANGED <<heap, handlers, line>>

\* The deferred Unlock, whether or not the line could be written.
Unlock_IfWritten(t, err) == mu' = [mu EXCEPT ![line[t].h] = err]
Unlock(t, err) == mu' = [mu EXCEPT ![line[t].h] = FALSE]

Write(t) ==
    /\ stage[t] \in {"Err", "Warning", "Info", "Debug"}
    /\ \E err \in BOOLEAN : Unlock(t, err)
    /\ stage' = [stage EXCEPT ![t] = "idle"]
    /\ line' = [line EXCEPT ![t] = NoLine]
    /\ UNCHANGED <<heap, handlers>>

-----------------------------------------------------------------------------

LogNext ==
    \/ \E h \in 1 .. Len(handlers) :
          \/ \E a \in Attrs : WithAttrs(h, a)
          \/ \E name \in Groups : WithGroup(h, name)
          \/ \E t \in Threads, r \in Records : Handle(t, h, r)
    \/ \E t \in Threads : Lock(t) \/ Write(t)

\* A goroutine that holds the mutex runs, and sync.Mutex, whose waiters do not
\* starve, is granted at last to one that asks for it.
LogFairness == \A t \in Threads : WF_logVars(Write(t)) /\ SF_logVars(Lock(t))

LogSpec == LogInit /\ [][LogNext]_logVars /\ LogFairness

-----------------------------------------------------------------------------
(* Properties                                                              *)

\* Types; the attributes of a handler are within its array.  A part of
\* LineIsTheHandlers.
LogTypeOK ==
    /\ \A i \in DOMAIN handlers :
        /\ handlers[i].group \in Seq(GroupNames)
        /\ handlers[i].array \in DOMAIN heap
        /\ handlers[i].len \in 0 .. Len(heap[handlers[i].array])
    /\ mu \in [1 .. MaxHandlers -> BOOLEAN]
    /\ stage \in [Threads -> {"idle", "lock", "Err", "Warning", "Info", "Debug"}]
    /\ \A t \in Threads : stage[t] = "idle" <=> line[t] = NoLine

\* What is written is one line, whatever the message and the values contain.
\* A part of LineIsTheHandlers.
SingleLine ==
    \A t \in Threads : stage[t] # "idle" => \A i \in DOMAIN line[t].text : ~line[t].text[i].broken

\* The names of the groups that are open at the i-th step of a derivation.
OpenGroups(path, i) ==
    LET steps == Select(path, {j \in 1 .. i - 1 : path[j].op = "group"})
    IN  [k \in DOMAIN steps |-> steps[k].name]

\* The derivation of a line: that of its handler, then the record's attributes.
PathOf(l) ==
    handlers[l.h].path \o [i \in DOMAIN l.r.attrs |-> [op |-> "attr", attr |-> l.r.attrs[i]]]

AttrSteps(path) == {i \in DOMAIN path : path[i].op = "attr"}
NamedSteps(path) == {i \in AttrSteps(path) : path[i].attr # EmptyAttr}

\* A line names exactly the attributes of the derivation of its handler and of
\* its record, in this order, each below the groups that were open when it was
\* added, however many other handlers were derived from the same ones.
LineIsTheHandlers ==
    /\ LogTypeOK
    /\ SingleLine
    /\ \A t \in Threads : stage[t] # "idle" =>
        LET path == PathOf(line[t])
            text == line[t].text
        IN  /\ Len(text) = 1 + Cardinality(NamedSteps(path))
            /\ \A i \in NamedSteps(path) :
                 text[1 + Rank(NamedSteps(path), i)].key
                     = Append(OpenGroups(path, i), path[i].attr.key)

\* Every call of Handle returns, even if other lines could not be written.
HandleEnds == \A t \in Threads : stage[t] # "idle" ~> stage[t] = "idle"

=============================================================================
