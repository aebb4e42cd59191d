----------------------------- MODULE VirtualDom -----------------------------
(***************************************************************************)
(* crates/open-runo-view: a component rendered to a virtual tree, the diff *)
(* of two trees (lib.rs), the patches applied to the browser's document    *)
(* one by one (dom.rs), and the runtime that keeps the component's state,  *)
(* effects and handlers between renderings (hooks.rs).  Children are       *)
(* numbered from 1.                                                        *)
(***************************************************************************)
EXTENDS Integers, Sequences, SequencesExt

CONSTANTS
    Trees,          \* bound: what the component renders, one event name, tags and texts
    Served,         \* what ssr.rs rendered into the mount point before; or nothing
    MaxUpdates      \* bound: how often the state is set

VARIABLES
    slot,       \* the value in the state slot; each setting is a new one
    dirty,      \* a setter was called since the last rendering began
    rendered,   \* the value the last rendering used
    deps,       \* effect_deps: the value the effect last saw
    last,       \* the last tree
    patches,    \* those still to be applied
    document    \* what is under the mount point

domVars == <<slot, dirty, rendered, deps, last, patches, document>>

Blank == [kind |-> "nothing"]
Text(s) == [kind |-> "text", text |-> s]
Element(tag, key, attrs, click, children) ==
    [kind |-> "element", tag |-> tag, key |-> key, attrs |-> attrs, click |-> click,
     children |-> children]
-----------------------------------------------------------------------------
(* create_node: what a tree looks like in the document, which has no keys.  *)

RECURSIVE Drawn(_)
Drawn(node) ==
    IF node.kind # "element" THEN node
    ELSE [node EXCEPT !.key = "none",
                      !.children = [i \in DOMAIN node.children |-> Drawn(node.children[i])]]

NodeKey(node) == IF node.kind = "element" THEN node.key ELSE "none"

\* Siblings have different keys, as React asks: two alike would break the diff.
ASSUME KeysAssumption ==
    \A tree \in Trees : tree.kind = "element" =>
        \A i, j \in DOMAIN tree.children :
            NodeKey(tree.children[i]) = NodeKey(tree.children[j])
                => i = j \/ NodeKey(tree.children[i]) = "none"

Without(seq, i) == RemoveAt(seq, i)
Moved(seq, from, to) == InsertAt(RemoveAt(seq, from), to, seq[from])

(* diff.  A patch: what to do, where, and with what.                        *)

Patch(do, path, arg) == <<[do |-> do, path |-> path, arg |-> arg]>>
FoldPatches(op(_), S) == FoldLeft(LAMBDA acc, x : acc \o op(x), <<>>, S)

\* Attributes come out of a hash map, in any order; they do not disturb each other.
DiffAttrs(a, b, path) ==
    LET set == {n \in DOMAIN b.attrs : n \notin DOMAIN a.attrs \/ a.attrs[n] # b.attrs[n]}
    IN  FoldPatches(LAMBDA n : Patch("SetAttr", path, <<n, b.attrs[n]>>), SetToSeq(set))
        \o FoldPatches(LAMBDA n : Patch("RemoveAttr", path, n),
                       SetToSeq(DOMAIN a.attrs \ DOMAIN b.attrs))

DiffEvents(a, b, path) ==
    CASE a.click = b.click -> <<>>
      [] b.click # "none" /\ a.click # b.click -> Patch("SetHandler", path, b.click)
      [] OTHER -> Patch("RemoveHandler", path, "none")

AllKeyed(a, b) ==
    /\ b.children # <<>>
    /\ \A n \in Range(a.children) \cup Range(b.children) : NodeKey(n) # "none"

KeysOf(children) == [i \in DOMAIN children |-> NodeKey(children[i])]
\* 1) what the new side lacks is removed, from the back;
Gone(a, b) ==
    SelectSeq(Reverse([i \in DOMAIN a.children |-> i]),
              LAMBDA i : NodeKey(a.children[i]) \notin Range(KeysOf(b.children)))
Remaining(a, b) ==
    SelectSeq(a.children, LAMBDA n : NodeKey(n) \in Range(KeysOf(b.children)))

RECURSIVE DiffNode(_, _, _), Placed(_, _, _, _)

\* 2) then each new child, in order: moved here or appended and moved here, with
\* its own differences after it.
Placed(cur, b, target, path) ==
    IF target > Len(b.children) THEN <<>>
    ELSE LET child == b.children[target]
             from  == SelectInSeq(cur, LAMBDA n : NodeKey(n) = NodeKey(child))
             grown == IF from = 0 THEN Append(cur, child) ELSE cur
             at    == IF from = 0 THEN Len(grown) ELSE from
             next  == Moved(grown, at, target)
         IN  (IF from = 0 THEN Patch("Append", path, child) ELSE <<>>)
             \o (IF at = target THEN <<>> ELSE Patch("MoveChild", path, <<at, target>>))
             \o (IF from = 0 THEN <<>> ELSE DiffNode(next[target], child, Append(path, target)))
             \o Placed(next, b, target + 1, path)

DiffKeyed(a, b, path) ==
    FoldPatches(LAMBDA i : Patch("RemoveChild", path, i), Gone(a, b))
    \o Placed(Remaining(a, b), b, 1, path)

From(n, m) == [i \in 1 .. m - n + 1 |-> n + i - 1]
RemovedForward(a, common) == From(common + 1, Len(a.children))       \* mutant
Removed(a, common) == Reverse(From(common + 1, Len(a.children)))

DiffUnkeyed(a, b, path) ==
    LET common == IF Len(a.children) < Len(b.children) THEN Len(a.children)
                  ELSE Len(b.children)
    IN  FoldPatches(LAMBDA i : DiffNode(a.children[i], b.children[i], Append(path, i)),
                    From(1, common))
        \o FoldPatches(LAMBDA i : Patch("RemoveChild", path, i), Removed(a, common))
        \o FoldPatches(LAMBDA i : Patch("Append", path, b.children[i]),
                       From(common + 1, Len(b.children)))

DiffChildren(a, b, path) ==
    IF AllKeyed(a, b) THEN DiffKeyed(a, b, path) ELSE DiffUnkeyed(a, b, path)

DiffNode(old, new, path) ==
    CASE old.kind = "text" /\ new.kind = "text" ->
            IF old.text = new.text THEN <<>> ELSE Patch("SetText", path, new.text)
      [] old.kind = "element" /\ new.kind = "element" /\ old.tag = new.tag ->
            DiffAttrs(old, new, path) \o DiffEvents(old, new, path)
                \o DiffChildren(old, new, path)
      [] OTHER -> Patch("Replace", path, new)

Diff(old, new) == DiffNode(old, new, <<>>)
-----------------------------------------------------------------------------
(* apply_one                                                                *)

Renamed(attrs, n, value) ==
    [m \in DOMAIN attrs \cup {n} |-> IF m = n THEN value ELSE attrs[m]]

\* The node a patch names, as the patch leaves it.
Patched(node, p) ==
    CASE p.do = "Replace" -> Drawn(p.arg)
      [] p.do = "SetText" -> Text(p.arg)
      [] p.do = "SetAttr" -> [node EXCEPT !.attrs = Renamed(@, p.arg[1], p.arg[2])]
      [] p.do = "RemoveAttr" ->
            [node EXCEPT !.attrs = [m \in DOMAIN @ \ {p.arg} |-> @[m]]]
      [] p.do = "SetHandler" -> [node EXCEPT !.click = p.arg]
      [] p.do = "RemoveHandler" -> [node EXCEPT !.click = "none"]
      [] p.do = "Append" -> [node EXCEPT !.children = Append(@, Drawn(p.arg))]
      [] p.do = "RemoveChild" -> [node EXCEPT !.children = Without(@, p.arg)]
      [] p.do = "MoveChild" -> [node EXCEPT !.children = Moved(@, p.arg[1], p.arg[2])]

\* node_at: down the path; a child the document does not have is BadPath.
RECURSIVE Has(_, _), Rewritten(_, _, _)
Has(node, path) ==
    path = <<>> \/ /\ node.kind = "element" /\ Head(path) \in DOMAIN node.children
                   /\ Has(node.children[Head(path)], Tail(path))
Rewritten(node, path, p) ==
    IF path = <<>> THEN Patched(node, p)
    ELSE [node EXCEPT !.children[Head(path)] = Rewritten(@, Tail(path), p)]

ApplyOne ==
    /\ patches # <<>>
    /\ patches' = Tail(patches)
    /\ document' = Rewritten(document, Head(patches).path, Head(patches))
    /\ UNCHANGED <<slot, dirty, rendered, deps, last>>
-----------------------------------------------------------------------------
(* Runtime                                                                  *)

Set(value) == slot' = value /\ dirty' = TRUE
Settable == slot < MaxUpdates

CleanAtEnd(sets) ==                                      \* mutant
    IF sets THEN slot' = slot + 1 /\ dirty' = FALSE ELSE dirty' = FALSE /\ UNCHANGED slot
\* The flag is cleared first; an effect that runs after the rendering may set the
\* state again.
Ended(sets) ==
    IF sets THEN Set(slot + 1) ELSE dirty' = FALSE /\ UNCHANGED slot

\* rerender: the first tree replaces whatever is mounted, later ones are diffed;
\* the effect runs when what it depends on has changed.
Rerender ==
    /\ patches = <<>>
    /\ \E tree \in Trees :
          /\ last' = tree
          /\ patches' = IF last = Blank THEN Patch("Replace", <<>>, tree) ELSE Diff(last, tree)
    /\ rendered' = slot /\ deps' = slot
    /\ \E sets \in BOOLEAN : (sets => deps # slot /\ Settable) /\ Ended(sets)
    /\ UNCHANGED document

\* The delegated listener: the nearest element around the target with a handler.
RECURSIVE HandlerAt(_, _)
HandlerAt(node, path) ==
    IF path = <<>> \/ node.kind # "element"
    THEN IF node.kind = "element" THEN node.click ELSE "none"
    ELSE LET inner == HandlerAt(node.children[Head(path)], Tail(path))
         IN  IF inner # "none" THEN inner ELSE node.click

Targets == {<<>>} \cup (IF document.kind = "element"
                        THEN {<<i>> : i \in DOMAIN document.children} ELSE {})

\* dispatch runs the handler, which sets the state.
Clicked ==
    /\ patches = <<>> /\ last # Blank /\ Settable
    /\ \E path \in Targets : HandlerAt(document, path) # "none"
    /\ Set(slot + 1)
    /\ UNCHANGED <<rendered, deps, last, patches, document>>
-----------------------------------------------------------------------------
DomInit ==
    /\ slot = 0 /\ dirty = FALSE /\ rendered = 0 /\ deps = -1
    /\ last = Blank /\ patches = <<>> /\ document \in Served

DomNext == Rerender \/ ApplyOne \/ Clicked

DomSpec == DomInit /\ [][DomNext]_domVars
-----------------------------------------------------------------------------
DomTypeOK ==
    /\ slot \in 0 .. MaxUpdates /\ dirty \in BOOLEAN
    /\ rendered \in 0 .. slot /\ deps \in {-1} \cup 0 .. slot
    /\ last \in Trees \cup {Blank}

\* Once its patches are applied the document shows the last tree, whatever trees came
\* before: each patch means the same to the diff, which simulates the moves, and to
\* the document, which made the earlier ones; and none names a node that is not there.
DocumentShowsTree ==
    /\ patches = <<>> /\ last # Blank => document = Drawn(last)
    /\ patches # <<>> => Head(patches).path = <<>> \/ Has(document, Head(patches).path)

\* A value set after a rendering began, by a handler or by an effect of that very
\* rendering, is not forgotten: the runtime says that it must render again.
NothingForgotten == last # Blank /\ slot # rendered => dirty
=============================================================================
