------------------------------ MODULE Parsing -------------------------------
(***************************************************************************)
(* Reading a resource file into a tree of nodes                            *)
(* (src/el/parsing/text_parser.cc, parse_node.cc, parse_node_tree.cc).     *)
(*                                                                         *)
(* A tree is the sequence of its nodes in document order, each with its    *)
(* depth.  The parser only ever appends to the node it is in, the target,  *)
(* so that is the last node of its depth and its depth tells which it is.  *)
(* A text is a sequence of words: one, or one for each line it spans.      *)
(***************************************************************************)
EXTENDS Integers, Sequences, FiniteSets
LOCAL S == INSTANCE SequencesExt

CONSTANTS Lines,         \* [indent, name, compact, value, more: a backslash ends it, children]
          Continuations, \* [value, more] of lines that go on with a value
          Request,       \* words that are requests -> the names on the way to a node
          Reference,     \* words "@tree>request" -> [tree: its name or "", request]
          RefTrees,      \* the registered trees: [names: those that are a prefix of its name, nodes]
          Files,         \* words that are names of files that exist -> what ReadFile makes of them:
                         \*  their nodes, without the conditions, which are resolved
          Truthy,        \* words whose number is not 0
          MaxLines       \* bound: lines of the document

(* Assumed of the constants where they get their values *)
ParsingAssumption ==
  /\ MaxLines \in Nat
  /\ \A l \in Lines : l.indent \in Nat /\ (l.children # <<>> => l.compact) /\ (l.more => l.compact)
  /\ \A word \in DOMAIN Files : \A i \in DOMAIN Files[word] : Files[word][i].name \notin {"@if", "@else"}

VARIABLES parser, \* [current_indent, pending_multiline, multi_line_sub_level, token, words:
                  \*  multi_line_value]
          doc,    \* [nodes, target: the depth of m_target_node, -1 when there is none]
          ghost   \* [entry: depth and words of what is being read, lines: so many, read: the nodes
                  \*  before conditions are resolved, done, failed: the assertion of Leave]

vars == <<parser, doc, ghost>>

Lost == -1
Conditions == {"@if", "@else"}

-----------------------------------------------------------------------------
(* Nodes *)

Depth(nodes, i) == IF i = 0 THEN 0 ELSE nodes[i].depth

(* The nodes under i are the next ones, as long as they are deeper. *)
Under(nodes, i) ==
  {j \in i + 1 .. Len(nodes) : \A k \in i + 1 .. j : nodes[k].depth > Depth(nodes, i)}
LastUnder(nodes, i) == CHOOSE j \in {i} \cup Under(nodes, i) : j + 1 \notin Under(nodes, i)

GetNodeInternal(nodes, i, name) ==
  LET named == {j \in Under(nodes, i) : nodes[j].depth = Depth(nodes, i) + 1 /\ nodes[j].name = name}
  IN  IF named = {} THEN Lost ELSE CHOOSE j \in named : \A k \in named : j <= k

GetNode(nodes, request) ==
  S!FoldLeft(LAMBDA i, name : IF i = Lost THEN Lost ELSE GetNodeInternal(nodes, i, name), 0, request)

(* The first tree that is called so, or whose name begins so; 0: there is none. *)
GetRefTree(name) ==
  LET found == {t \in DOMAIN RefTrees : name \in RefTrees[t].names}
  IN  IF found = {} THEN 0 ELSE CHOOSE t \in found : \A u \in found : t <= u

(* FollowNodeRef, from a node: [tree: its index, 0 for the document, at: its index]; `alone` is the
   value of a node outside of any tree, whose tree is -1. *)
Nodes(nodes, alone, tree) ==
  IF tree = 0 THEN nodes ELSE IF tree = -1 THEN <<[depth |-> 0, name |-> "", value |-> alone]>>
                         ELSE RefTrees[tree].nodes

RECURSIVE FollowNodeRef(_, _, _, _, _)
FollowNodeRef(nodes, alone, start, node, seen) ==
  LET here == Nodes(nodes, alone, node.tree)
      value == IF node.at = 0 THEN <<>> ELSE here[node.at].value
      ref == Reference[Head(value)]
      tree == IF ref.tree = "" THEN node.tree ELSE GetRefTree(ref.tree)
      there == Nodes(nodes, alone, tree)
      next == [tree |-> tree, at |-> IF tree = -1 THEN Lost ELSE GetNode(there, ref.request)]
  IN  IF Len(value) # 1 \/ Head(value) \notin DOMAIN Reference THEN node
      ELSE IF (ref.tree # "" /\ tree = 0) \/ next.at = Lost THEN node
      ELSE IF next \in seen THEN start
      ELSE FollowNodeRef(nodes, alone, start, next, seen \cup {next})

(* GetValueFollowRef().as_integer() *)
Holds(nodes, i) ==
  LET start == [tree |-> 0, at |-> i]
      node == FollowNodeRef(nodes, <<>>, start, start, {})
      value == IF node.at = 0 THEN <<>> ELSE Nodes(nodes, <<>>, node.tree)[node.at].value
  IN  value # <<>> /\ Head(value) \in Truthy

-----------------------------------------------------------------------------
(* ParseNodeTree::ResolveConditions, of the siblings from i on; `level` is their depth and
   `condition_ret` what the last condition among them was. *)
RECURSIVE ResolveConditions(_, _, _, _)

(* Mutant: a branch is not resolved before it takes the place of its condition *)
BranchUnresolved(nodes, i, level) == nodes

Branch(nodes, i, level) == ResolveConditions(nodes, i + 1, level + 1, FALSE)

ResolveConditions(nodes, i, level, condition_ret) ==
  IF i > Len(nodes) \/ Depth(nodes, i) < level THEN nodes
  ELSE LET condition == IF nodes[i].name = "@if" THEN Holds(nodes, i) ELSE ~condition_ret
           inner == Branch(nodes, i, level)
           last == LastUnder(inner, i)
           lifted == [k \in 1 .. last - i |-> [inner[i + k] EXCEPT !.depth = @ - 1]]
       IN  IF nodes[i].name \notin Conditions THEN ResolveConditions(inner, last + 1, level, condition_ret)
           ELSE IF condition
           THEN ResolveConditions(SubSeq(inner, 1, i - 1) \o lifted \o SubSeq(inner, last + 1, Len(inner)),
                                  last, level, TRUE)
           ELSE ResolveConditions(SubSeq(nodes, 1, i - 1)
                                  \o SubSeq(nodes, LastUnder(nodes, i) + 1, Len(nodes)), i, level, FALSE)

-----------------------------------------------------------------------------
(* ParseNodeTarget *)

Enter(d) ==
  IF d.target # Lost /\ d.nodes # <<>> /\ d.nodes[Len(d.nodes)].depth > d.target
  THEN [d EXCEPT !.target = @ + 1]
  ELSE [d EXCEPT !.target = Lost]

Leave(d) == IF d.target = Lost THEN d ELSE [d EXCEPT !.target = @ - 1]

(* CloneChildren and the children of a file are added at the end of the target. *)
CloneChildren(d, nodes, i) ==
  LET moved(j) == LET depth == nodes[j].depth - Depth(nodes, i) + d.target
                  IN  [depth |-> depth, name |-> nodes[j].name, value |-> nodes[j].value,
                       entry |-> [depth |-> depth, words |-> nodes[j].value]]
  IN  [d EXCEPT !.nodes = @ \o [k \in 1 .. LastUnder(nodes, i) - i |-> moved(i + k)]]

(* A node that holds the target would be copied into itself. *)
Holding(d, i) == i \in 0 .. Len(d.nodes) /\ Depth(d.nodes, i) <= d.target /\ LastUnder(d.nodes, i) = Len(d.nodes)

IncludeRef(d, word) ==
  IF word \in DOMAIN Reference
  THEN LET start == [tree |-> -1, at |-> 1]
           node == FollowNodeRef(d.nodes, <<word>>, start, start, {})
       IN  IF node.tree = -1 THEN d ELSE CloneChildren(d, Nodes(d.nodes, <<>>, node.tree), node.at)
  ELSE LET i == GetNode(d.nodes, Request[word])
       IN  IF i = Lost \/ Holding(d, i) THEN d ELSE CloneChildren(d, d.nodes, i)

IncludeFile(d, word) == IF word \in DOMAIN Files THEN CloneChildren(d, Files[word], 0) ELSE d

OnToken(d, name, value, entry) ==
  IF d.target = Lost THEN d
  ELSE IF name = "@file" THEN IncludeFile(d, Head(value))
  ELSE IF name = "@include" THEN IncludeRef(d, Head(value))
  ELSE [d EXCEPT !.nodes = Append(@, [depth |-> d.target + 1, name |-> name, value |-> value,
                                      entry |-> entry])]

-----------------------------------------------------------------------------
(* TextParser *)

(* ConsumeValue: a value that goes on, or ends one that went on, is kept. *)
ConsumeValue(p, value, more) ==
  [p EXCEPT !.words = IF p.pending_multiline \/ more THEN Append(@, value) ELSE @,
            !.pending_multiline = more]

Entry(depth, words) == [depth |-> depth, words |-> words]

(* OnLine, of a line that begins with a token.  The children of a compact line are in it; the last
   may go on, as may the value of the line itself, and then no child is read. *)
Indent(indent) ==
  LET less == parser.current_indent - indent
  IN  IF less < 0 THEN Enter(doc) ELSE [doc EXCEPT !.target = IF @ < less THEN Lost ELSE @ - less]

OnCompactLine(p, d, line) ==
  LET inside == Enter(d)
      whole == SelectSeq(line.children, LAMBDA c : ~c.more)
      read == S!FoldLeft(LAMBDA e, c : OnToken(e, c.name, <<c.value>>, Entry(line.indent + 2, <<c.value>>)),
                         inside, whole)
      goes == Len(whole) < Len(line.children)
      last == line.children[Len(line.children)]
  IN  IF goes THEN [p |-> [ConsumeValue(p, last.value, TRUE) EXCEPT !.token = last.name,
                                                                    !.multi_line_sub_level = 1],
                    d |-> read, entry |-> Entry(line.indent + 2, <<last.value>>)]
              ELSE [p |-> p, d |-> Leave(read), entry |-> ghost.entry]

OnLine(line) ==
  LET p == [parser EXCEPT !.current_indent = line.indent]
      d == Indent(line.indent)
      after == OnToken(d, line.name, <<line.value>>, Entry(line.indent + 1, <<line.value>>))
      result == IF line.more
                THEN [p |-> [ConsumeValue(p, line.value, TRUE) EXCEPT !.token = line.name],
                      d |-> d, entry |-> Entry(line.indent + 1, <<line.value>>)]
                ELSE IF line.compact THEN OnCompactLine(p, after, line)
                ELSE [p |-> p, d |-> after, entry |-> ghost.entry]
  IN  /\ ~ghost.done /\ ghost.lines < MaxLines /\ ~parser.pending_multiline
      /\ line.indent - parser.current_indent <= 1
      /\ parser' = result.p /\ doc' = result.d
      /\ ghost' = [ghost EXCEPT !.lines = @ + 1, !.entry = result.entry,
                                !.failed = @ \/ (doc.target # Lost /\ doc.target < parser.current_indent - line.indent)]

Ended(p) == [p EXCEPT !.words = <<>>, !.multi_line_sub_level = 0]

OnMultiline(value, more) ==
  LET p == ConsumeValue(parser, value, more)
      entry == [ghost.entry EXCEPT !.words = Append(@, value)]
      read == OnToken(doc, p.token, p.words, entry)
  IN  /\ ~ghost.done /\ ghost.lines < MaxLines /\ parser.pending_multiline
      /\ parser' = IF more THEN p ELSE Ended(p)
      /\ doc' = IF more THEN doc ELSE IF p.multi_line_sub_level = 1 THEN Leave(read) ELSE read
      /\ ghost' = [ghost EXCEPT !.lines = @ + 1, !.entry = entry,
                                !.failed = @ \/ (~more /\ p.multi_line_sub_level = 1 /\ read.target = 0)]

-----------------------------------------------------------------------------
(* The end of the text: what still goes on is dropped. *)
ReadData ==
  /\ ~ghost.done /\ ghost.lines > 0
  /\ doc' = [doc EXCEPT !.nodes = ResolveConditions(@, 1, 1, FALSE)]
  /\ ghost' = [ghost EXCEPT !.done = TRUE, !.read = doc.nodes]
  /\ UNCHANGED parser

Init ==
  /\ parser = [current_indent |-> 0, pending_multiline |-> FALSE, multi_line_sub_level |-> 0, token |-> "",
               words |-> <<>>]
  /\ doc = [nodes |-> <<>>, target |-> 0]
  /\ ghost = [entry |-> Entry(0, <<>>), lines |-> 0, read |-> <<>>, done |-> FALSE, failed |-> FALSE]

Next ==
  \/ \E line \in Lines : OnLine(line)
  \/ \E c \in Continuations : OnMultiline(c.value, c.more)
  \/ ReadData

Spec == Init /\ [][Next]_vars

-----------------------------------------------------------------------------
(* Properties *)

(* Lines that are too deep are skipped, texts go on over lines, compact lines hold children, other
   nodes are copied in between: whatever came before, every token is read at the depth its line
   has, with all the text that is its own and no other, and the parser leaves what it entered. *)
ParsedAsWritten ==
  /\ ~ghost.failed
  /\ doc.target # Lost => doc.target = parser.current_indent + parser.multi_line_sub_level
  /\ ~ghost.done => \A i \in DOMAIN doc.nodes :
       Entry(doc.nodes[i].depth, doc.nodes[i].value) = doc.nodes[i].entry

(* The branch a node is in is the nearest condition above it; @else is the other branch of what
   was the condition before it, among its siblings. *)
Before(nodes, i) ==
  {j \in 1 .. i - 1 : /\ nodes[j].name \in Conditions /\ nodes[j].depth = nodes[i].depth
                      /\ \A k \in j .. i : nodes[k].depth >= nodes[i].depth}
Taken(nodes) ==
  LET taken[i \in DOMAIN nodes] ==
        IF nodes[i].name = "@if" THEN Holds(nodes, i)
        ELSE LET before == Before(nodes, i)
             IN  IF before = {} THEN TRUE ELSE ~taken[CHOOSE j \in before : \A k \in before : k <= j]
  IN  taken
Above(nodes, i) == {j \in 1 .. i - 1 : i \in Under(nodes, j) /\ nodes[j].name \in Conditions}

(* The nodes that conditions refer to are in no branch, so that they are the same before, while
   and after conditions are resolved. *)
Settled(nodes) ==
  \A word \in DOMAIN Reference, i \in DOMAIN nodes :
    S!Contains(Reference[word].request, nodes[i].name) => Above(nodes, i) = {}

(* Once a document is read, no condition is left in it, at any depth, also none that came with a
   branch; the nodes in branches that were taken, and no others, are there, in their order and
   where the condition was. *)
ConditionsResolved ==
  ghost.done /\ Settled(ghost.read) =>
    LET taken == Taken(ghost.read)
        kept == {i \in DOMAIN ghost.read : /\ ghost.read[i].name \notin Conditions
                                           /\ \A j \in Above(ghost.read, i) : taken[j]}
        order == SelectSeq([i \in DOMAIN ghost.read |-> i], LAMBDA i : i \in kept)
    IN  doc.nodes = [k \in DOMAIN order |->
                      [ghost.read[order[k]] EXCEPT !.depth = @ - Cardinality(Above(ghost.read, order[k]))]]
=============================================================================
