------------------------------- MODULE Blocks -------------------------------
(***************************************************************************)
(* From the design to the blocks a report names (src/block): BlockManager  *)
(* walks over the instances of the design, breadth first from the top      *)
(* module, collects the blocks of each instance's module                   *)
(* (parse_module_blocks, dfb.rs) and builds the scopes of the instances    *)
(* inside it from the labels of the generate blocks around them (mgr.rs).  *)
(*                                                                         *)
(* A module is what the syntax tree shows of it in order: its events       *)
(* (generate blocks opening and closing, instantiations) and its nodes     *)
(* (ports and statements, one to a line).  A scope is the names on the way *)
(* to it; what a position of a module introduces is named by the position: *)
(* a label, an instance, or the second instance of one statement.          *)
(***************************************************************************)
EXTENDS Integers, Sequences, FiniteSets

CONSTANTS
    Modules,  \* names of the modules the RTL files declare
    Library,  \* the name of a module that no file declares
    TopModule,
    Designs,  \* module -> events and nodes, for each design
    None

ASSUME ModulesAssumption ==
    IsFiniteSet(Modules) /\ TopModule \in Modules /\ Library \notin Modules

\* label: the generate block has one, where it opens or again where it closes.
\* more: the statement makes a second instance.
Events ==
    [kind : {"open", "close"}, label : BOOLEAN]
    \cup [kind : {"inst"}, of : Modules \cup {Library}, more : BOOLEAN]

NodeKinds == {"input", "output", "inout", "same", \* ports; same: no direction
              "always", "assign", "wire",         \* wire: with initial values
              "net"}

ASSUME NoneAssumption == None \notin NodeKinds

ASSUME DesignAssumption ==
    \A d \in Designs : \A m \in Modules :
        /\ d[m].events \in Seq(Events)
        /\ d[m].nodes \in Seq(NodeKinds)

VARIABLES
    doing,
    design,
    queue,         \* instances found and not yet visited
    cur,           \* the instance being visited
    at,            \* position in its nodes or its events
    direction,     \* last_port_direction
    parsed,        \* blocks found in its nodes
    prefix,        \* scope_prefix
    blocksByScope  \* blocks_by_scope

walk == <<doing, design, queue, cur, at, direction, parsed, prefix, blocksByScope>>

Label(i)  == <<"label", i>>
First(i)  == <<"first", i>>
Second(i) == <<"second", i>>

\* depth: instances above it, to tell a design without end.
Instance(s, m, n) == [scope |-> s, module |-> m, depth |-> n]

EventsOf(m) == design[m].events
NodesOf(m) == design[m].nodes

WalkInit ==
    /\ doing = "pop"
    /\ design \in Designs
    /\ queue = <<Instance(<<>>, TopModule, 0)>>
    /\ cur = None
    /\ at = 0
    /\ direction = None
    /\ parsed = <<>>
    /\ prefix = <<>>
    /\ blocksByScope = [s \in {} |-> <<>>]

\* Faulty: the instance is looked at and stays in the queue.
PopNothing ==
    /\ doing = "pop"
    /\ queue # <<>>
    /\ cur' = Head(queue)
    /\ at' = 1
    /\ direction' = None
    /\ parsed' = <<>>
    /\ doing' = "parse"
    /\ UNCHANGED <<design, queue, prefix, blocksByScope>>

Pop ==
    /\ doing = "pop"
    /\ queue # <<>>
    /\ cur' = Head(queue)
    /\ queue' = Tail(queue)
    /\ at' = 1
    /\ direction' = None
    /\ parsed' = <<>>
    /\ doing' = "parse"
    /\ UNCHANGED <<design, prefix, blocksByScope>>

Done ==
    /\ doing = "pop"
    /\ queue = <<>>
    /\ doing' = "done"
    /\ UNCHANGED <<design, queue, cur, at, direction, parsed, prefix, blocksByScope>>

(***************************************************************************)
(* parse_module_blocks                                                     *)
(***************************************************************************)
Ports == {"input", "output", "inout", "same"}

\* A port without a direction has the one of the port before it.
Direction(kind) == IF kind = "same" THEN direction ELSE kind

\* What becomes a block: ports that are inputs or outputs, processes,
\* assignments, and declarations with an initial value, which count once
\* however many they have.
BlockType(kind) ==
    CASE kind \in Ports -> IF Direction(kind) \in {"input", "output"}
                           THEN Direction(kind) ELSE None
      [] kind = "always" -> "always"
      [] kind \in {"assign", "wire"} -> "assign"
      [] OTHER -> None

ParseNode ==
    /\ doing = "parse"
    /\ at <= Len(NodesOf(cur.module))
    /\ LET kind == NodesOf(cur.module)[at]
       IN  /\ direction' = IF kind \in Ports THEN Direction(kind) ELSE direction
           /\ parsed' = IF BlockType(kind) = None THEN parsed
                        ELSE Append(parsed, [bid  |-> Len(parsed),
                                             type |-> BlockType(kind),
                                             line |-> at])
    /\ at' = at + 1
    /\ UNCHANGED <<doing, design, queue, cur, prefix, blocksByScope>>

EndParse ==
    /\ doing = "parse"
    /\ at > Len(NodesOf(cur.module))
    /\ blocksByScope' = [s \in DOMAIN blocksByScope \cup {cur.scope} |->
                            IF s = cur.scope THEN parsed ELSE blocksByScope[s]]
    /\ prefix' = <<>>
    /\ at' = 1
    /\ doing' = "walk"
    /\ UNCHANGED <<design, queue, cur, direction, parsed>>

(***************************************************************************)
(* The walk over the module's events                                       *)
(***************************************************************************)
Event == EventsOf(cur.module)[at]

Walking(kind) ==
    /\ doing = "walk"
    /\ at <= Len(EventsOf(cur.module))
    /\ Event.kind = kind
    /\ at' = at + 1

\* Where the block that closes at position i of module m was opened.
Nested(m, j, i) ==
    Cardinality({k \in j..i : EventsOf(m)[k].kind = "open"})
        = Cardinality({k \in j..i : EventsOf(m)[k].kind = "close"})

OpenedAt(m, i) ==
    CHOOSE j \in 1..i : /\ EventsOf(m)[j].kind = "open" /\ Nested(m, j, i)
                        /\ \A k \in j + 1..i : ~(EventsOf(m)[k].kind = "open" /\ Nested(m, k, i))

\* A label is pushed where it stands; a block without one pushes nothing.
OpenBlock ==
    /\ Walking("open")
    /\ prefix' = IF Event.label THEN Append(prefix, Label(at)) ELSE prefix
    /\ UNCHANGED <<doing, design, queue, cur, direction, parsed, blocksByScope>>

\* Faulty: leaving a generate block keeps its label.
CloseNothing ==
    /\ Walking("close")
    /\ UNCHANGED <<doing, design, queue, cur, direction, parsed, prefix, blocksByScope>>

\* The label after `end` is pushed like any other, then one label is popped,
\* also for a block that pushed none.
CloseBlock ==
    /\ Walking("close")
    /\ LET pushed == IF Event.label
                     THEN Append(prefix, Label(OpenedAt(cur.module, at))) ELSE prefix
       IN  prefix' = IF pushed = <<>> THEN <<>>
                     ELSE SubSeq(pushed, 1, Len(pushed) - 1)
    /\ UNCHANGED <<doing, design, queue, cur, direction, parsed, blocksByScope>>

\* No scope is visited twice on purpose: without a guard against a module that
\* contains itself, the walk would go on for good; depth stops the model.
EnterInstance ==
    /\ Walking("inst")
    /\ IF Event.of = Library THEN UNCHANGED <<doing, queue>>
       ELSE IF cur.depth >= Cardinality(Modules)
       THEN doing' = "endless" /\ UNCHANGED queue
       ELSE /\ queue' = Append(queue, Instance(cur.scope \o prefix \o <<First(at)>>,
                                               Event.of, cur.depth + 1))
            /\ UNCHANGED doing
    /\ UNCHANGED <<design, cur, direction, parsed, prefix, blocksByScope>>

EndWalk ==
    /\ doing = "walk"
    /\ at > Len(EventsOf(cur.module))
    /\ doing' = "pop"
    /\ UNCHANGED <<design, queue, cur, at, direction, parsed, prefix, blocksByScope>>

WalkFinished == doing \in {"done", "endless"} /\ UNCHANGED walk

WalkNext ==
    \/ Pop \/ Done
    \/ ParseNode \/ EndParse
    \/ OpenBlock \/ CloseBlock \/ EnterInstance \/ EndWalk
    \/ WalkFinished

\* One thread walks over the design until it is through.
WalkSpec == WalkInit /\ [][WalkNext]_walk /\ WF_walk(WalkNext)

(***************************************************************************)
(* Properties                                                              *)
(***************************************************************************)
\* Opening and closing generate blocks at positions j to i.
Opening(m, j, i) == {k \in j..i : EventsOf(m)[k].kind = "open"}
Closing(m, j, i) == {k \in j..i : EventsOf(m)[k].kind = "close"}

\* Blocks that are open before position i: behind none of their positions has
\* as much been closed as opened.
OpenBefore(m, i) ==
    {j \in 1..i - 1 :
        \A k \in j..i - 1 : Cardinality(Opening(m, j, k)) > Cardinality(Closing(m, j, k))}

\* The labels of the generate blocks around position i, outermost first.
Around(m, i) ==
    LET open == OpenBefore(m, i)
    IN  [n \in 1..Cardinality(open) |->
           Label(CHOOSE j \in open : Cardinality({k \in open : k <= j}) = n)]

\* The instances inside an instance.
Inside(x) ==
    LET insts == {i \in DOMAIN EventsOf(x.module) :
                    /\ EventsOf(x.module)[i].kind = "inst"
                    /\ EventsOf(x.module)[i].of # Library}
        inst(i, name) == Instance(x.scope \o Around(x.module, i) \o <<name>>,
                                  EventsOf(x.module)[i].of, x.depth + 1)
    IN  {inst(i, First(i)) : i \in insts}
        \cup {inst(i, Second(i)) : i \in {j \in insts : EventsOf(x.module)[j].more}}

Hierarchy ==
    LET upTo[n \in Nat] ==
            IF n = 0 THEN {Instance(<<>>, TopModule, 0)}
            ELSE upTo[n - 1] \cup UNION {Inside(x) : x \in upTo[n - 1]}
    IN  upTo[Cardinality(Modules) + 1]

\* Some module contains itself, directly or through others.
Endless == \E x \in Hierarchy : x.depth > Cardinality(Modules)

\* Every generate block has one label and every statement one instance.
Plain ==
    \A m \in Modules : \A i \in DOMAIN EventsOf(m) :
        LET e == EventsOf(m)[i]
        IN  /\ e.kind = "open" => e.label
            /\ e.kind = "close" => ~e.label
            /\ e.kind = "inst" => ~e.more

\* The direction of the last port at or before position i that states one.
Stated(nodes, i) ==
    LET stating == {j \in 1..i : nodes[j] \in Ports \ {"same"}}
    IN  IF stating = {} THEN None
        ELSE nodes[CHOOSE j \in stating : \A k \in stating : k <= j]

TypeOfLine(nodes, i) ==
    CASE nodes[i] \in Ports -> Stated(nodes, i)
      [] nodes[i] \in {"wire", "assign"} -> "assign"
      [] OTHER -> nodes[i]

\* Every instance of the design is found under its own scope with the blocks
\* of its own module, one to each line that holds a port with a direction, a
\* process or an assignment, and no other scope is made up, as long as
\* generate blocks are labelled once and statements make one instance: what
\* the prefix kept from one block never reaches the next.
InstancesFound ==
    (doing = "done" /\ Plain) =>
        /\ DOMAIN blocksByScope = {x.scope : x \in Hierarchy}
        /\ \A x \in Hierarchy :
             LET nodes == NodesOf(x.module)
                 found == blocksByScope[x.scope]
             IN  /\ {<<found[b].line, found[b].type>> : b \in DOMAIN found}
                        = {<<i, TypeOfLine(nodes, i)>> : i \in
                             {j \in DOMAIN nodes :
                                TypeOfLine(nodes, j) \notin {None, "inout", "net"}}}
                 /\ \A b, c \in DOMAIN found :
                       found[b].bid = found[c].bid => b = c

\* The walk comes to an end, whatever the labels, unless a module contains
\* itself.
WalkEnds == <>(doing = "done" \/ (doing = "endless" /\ Endless))
=============================================================================
