------------------------------- MODULE ListView -------------------------------
(***************************************************************************)
(* The list views of ui/list_view.c as ui.c uses them: the output view,    *)
(* which is only added to and scrolled, and the panes (stack, data, code), *)
(* which every session clears and fills again.  A view is a circular list  *)
(* through its head, a node that is no item; top_line is the node before   *)
(* the first one that is drawn.  The items of all views are allocated from *)
(* one heap, which may give out again what was freed, or give nothing.     *)
(***************************************************************************)
EXTENDS Naturals, Sequences, FiniteSets

CONSTANTS
  Nodes,      \* bound: the addresses kmalloc can return for items
  list_head,  \* the list_head inside struct ice_listview
  Lines,      \* the texts of lines
  Height,     \* of a view, in pixels
  FontHeight, \* of a line
  MaxPane     \* bound: the lines a pane is filled with

ASSUME HeadAssumption  == list_head \notin Nodes
ASSUME SizesAssumption ==
  Height \in Nat /\ FontHeight \in Nat \ {0} /\ Height >= FontHeight /\ MaxPane \in Nat

VARIABLES
  loaded, \* the module is loaded
  oops,   \* a NULL has been dereferenced, which stops the machine or, in
          \* ui_init, the loading of the module
  made,   \* what ui_init obtained: the frame buffer "fb" and views
  text,   \* what an allocated item holds, Free for memory that is not allocated
  view,   \* of each view its items in list order and top_line
  shown,  \* what the last refresh of each view drew
  log,    \* the lines the output view was given
  scarce  \* whether kmalloc may fail

vars == <<loaded, oops, made, text, view, shown, log, scarce>>

Views == {"output", "pane"}
Parts == {"fb"} \cup Views
Free  == "free"
Junk  == "junk" \* what is drawn when a node is no item
ASSUME LinesAssumption == Free \notin Lines

Available == {n \in Nodes : text[n] = Free}
Items(v)  == {v.items[i] : i \in 1..Len(v.items)}

\* The nodes that list_for_each_entry_safe(v, n, top_line) visits: round the
\* circle from top_line's successor, through the head, to its predecessor.
Behind(v) ==
  LET ring == <<list_head>> \o v.items
      at   == CHOOSE i \in 1..Len(ring) : ring[i] = v.top
  IN  IF v.top \in Items(v) \cup {list_head}
      THEN SubSeq(ring, at + 1, Len(ring)) \o SubSeq(ring, 1, at - 1)
      ELSE <<v.top>>

-----------------------------------------------------------------------------
\* What is drawn for a node: its text, whatever that is once it was freed.
Content(t, n) == IF n \in Nodes THEN t[n] ELSE Junk

\* ui_listview_refresh: a line is drawn as long as the one before it left room.
Refresh(v, t) ==
  LET full(k) == (k + 1) * FontHeight > Height
      drawn   == {k \in 1..Len(Behind(v)) : \A j \in 1..(k - 1) : ~full(j)}
  IN  [k \in drawn |-> Content(t, Behind(v)[k])]

\* Mutant: scrolls when the last line that fits has been added.
ScrollDown_Early(v) ==
  IF Len(Behind(v)) >= Height \div FontHeight
  THEN [v EXCEPT !.top = Behind(v)[1]] ELSE v

\* ui_listview_scrolldown
ScrollDown(v) ==
  IF Len(Behind(v)) > Height \div FontHeight
  THEN [v EXCEPT !.top = Behind(v)[1]] ELSE v

\* ui_listview_additem, once its memory is allocated.
Add(v, n) == [v EXCEPT !.items = Append(@, n)]

\* ui_listview_clear: top_line keeps what it points to.
Clear(v) == [v EXCEPT !.items = <<>>]

-----------------------------------------------------------------------------
\* Mutant: an item whose text could not be allocated is not freed.
AddItem_Leaks(l) ==
  \/ \E n \in Available :
       /\ "output" \in made
       /\ text' = [text EXCEPT ![n] = l]
       /\ view' = [view EXCEPT !["output"] = ScrollDown(Add(@, n))]
       /\ log' = Append(log, l) /\ UNCHANGED oops
  \/ \E n \in Available :
       /\ scarce /\ "output" \in made
       /\ text' = [text EXCEPT ![n] = l]
       /\ view' = [view EXCEPT !["output"] = ScrollDown(@)]
       /\ UNCHANGED <<log, oops>>

\* ui_listview_additem and ui_listview_scrolldown of the output view.  Without
\* memory for the text the item is freed and the line lost, and the view
\* scrolls all the same.  Without memory for the item its field text is written
\* through NULL; and a view that is NULL is tested by additem, which does
\* nothing then, but not by scrolldown.
AddItem(l) ==
  \/ \E n \in Available :
       /\ "output" \in made
       /\ text' = [text EXCEPT ![n] = l]
       /\ view' = [view EXCEPT !["output"] = ScrollDown(Add(@, n))]
       /\ log' = Append(log, l) /\ UNCHANGED oops
  \/ /\ scarce /\ "output" \in made
     /\ view' = [view EXCEPT !["output"] = ScrollDown(@)]
     /\ UNCHANGED <<text, log, oops>>
  \/ /\ scarce \/ "output" \notin made
     /\ oops' = TRUE
     /\ UNCHANGED <<text, view, log>>

\* output_addline
OutputAddline(l) ==
  /\ loaded /\ ~oops
  /\ AddItem(l)
  /\ shown' = IF oops' THEN shown
              ELSE [shown EXCEPT !["output"] = Refresh(view'["output"], text')]
  /\ UNCHANGED <<loaded, made, scarce>>

Filled_Scrolls(v, ns) == \* mutant: a pane scrolls to its last line
  ScrollDown([Clear(v) EXCEPT !.items = ns])

\* Fills a view that has been cleared with the items at ns.
Filled(v, ns) == [Clear(v) EXCEPT !.items = ns]

\* A pane is cleared, its items are freed, and it is filled again.  A line that
\* no memory is found for the text of is left out, as if it were not in ls.
Refill(ls) ==
  LET freed == [n \in Nodes |-> IF n \in Items(view["pane"]) THEN Free ELSE text[n]]
  IN  \E ns \in [1..Len(ls) -> {n \in Nodes : freed[n] = Free}] :
        /\ \A i, j \in 1..Len(ls) : ns[i] = ns[j] => i = j
        /\ text' = [n \in Nodes |->
                      IF \E i \in 1..Len(ls) : ns[i] = n
                      THEN ls[CHOOSE i \in 1..Len(ls) : ns[i] = n] ELSE freed[n]]
        /\ view' = [view EXCEPT !["pane"] = Filled(@, ns)]

\* show_mainui returns at once without a frame buffer.  It refills and draws a
\* pane, then draws the output view.  When no memory is found for an item behind
\* ls, or the view to be drawn is NULL, it gets no further.
ShowMainUI(ls) ==
  /\ loaded /\ ~oops /\ "fb" \in made
  /\ IF "pane" \in made THEN Refill(ls) ELSE UNCHANGED <<text, view>>
  /\ \/ /\ Views \subseteq made
        /\ shown' = [v \in Views |-> Refresh(view'[v], text')]
        /\ UNCHANGED oops
     \/ /\ scarce \/ "pane" \notin made
        /\ oops' = TRUE /\ UNCHANGED shown
     \/ /\ "pane" \in made /\ "output" \notin made
        /\ shown' = [shown EXCEPT !["pane"] = Refresh(view'["pane"], text')]
        /\ oops' = TRUE
  /\ UNCHANGED <<loaded, made, log, scarce>>

\* ui_listview_del: the items of the view are freed, then the view.
Del(t, v) == [n \in Nodes |-> IF n \in Items(v) THEN Free ELSE t[n]]

\* ui_clean when the module is unloaded.
UiClean ==
  /\ loaded /\ ~oops
  /\ loaded' = FALSE
  /\ text' = Del(Del(text, view["pane"]), view["output"])
  /\ view' = [v \in Views |-> [items |-> <<>>, top |-> list_head]]
  /\ UNCHANGED <<oops, made, shown, log, scarce>>

-----------------------------------------------------------------------------
\* ui_init: without a frame buffer it makes no views; a view that no memory is
\* found for stays NULL; the output view, if there is one, gets its first line.
Init ==
  /\ loaded = TRUE /\ scarce \in BOOLEAN
  /\ made \in IF scarce THEN {{}} \cup {{"fb"} \cup m : m \in SUBSET Views} ELSE {{}, Parts}
  /\ shown = [v \in Views |-> <<>>]
  /\ \/ \E n \in Nodes, l \in Lines :
          /\ "output" \in made /\ oops = FALSE
          /\ text = [m \in Nodes |-> IF m = n THEN l ELSE Free]
          /\ view = [v \in Views |->
                       [items |-> IF v = "output" THEN <<n>> ELSE <<>>, top |-> list_head]]
          /\ log = <<l>>
     \/ /\ scarce \/ "output" \notin made
        /\ oops \in BOOLEAN /\ (oops => "output" \in made)
        /\ text = [m \in Nodes |-> Free]
        /\ view = [v \in Views |-> [items |-> <<>>, top |-> list_head]]
        /\ log = <<>>

PaneLines == UNION {[1..k -> Lines] : k \in 0..MaxPane}

Next ==
  \/ \E l \in Lines : OutputAddline(l)
  \/ \E ls \in PaneLines : ShowMainUI(ls)
  \/ UiClean

Spec == Init /\ [][Next]_vars

-----------------------------------------------------------------------------
TypeOK ==
  /\ loaded \in BOOLEAN /\ oops \in BOOLEAN /\ made \subseteq Parts
  /\ text \in [Nodes -> Lines \cup {Free}]
  /\ \A v \in Views : view[v].items \in Seq(Nodes) /\ view[v].top \in Nodes \cup {list_head}
  /\ \A v \in Views : shown[v] \in Seq(Lines \cup {Junk, Free})
  /\ log \in Seq(Lines) /\ scarce \in BOOLEAN

\* top_line, which ui_listview_clear does not reset, is always the head or an
\* item of its own view, never one that was freed: only the view that is never
\* cleared is scrolled.  That holds at every failing allocation, those included
\* that end in an oops.
TopLinked == TypeOK /\ \A v \in Views : view[v].top \in Items(view[v]) \cup {list_head}

\* The items in memory are those of the two views, each in one view and once:
\* no line of code leaks an item or links one twice, unloading frees all, and a
\* failing allocation, whether of an item or of its text, leaves nothing behind.
HeapOwned ==
  /\ {n \in Nodes : text[n] # Free} = UNION {Items(view[v]) : v \in Views}
  /\ \A v, w \in Views : v # w => Items(view[v]) \cap Items(view[w]) = {}
  /\ \A v \in Views : Cardinality(Items(view[v])) = Len(view[v].items)

Rows      == Height \div FontHeight
Latest(s) == SubSeq(s, IF Len(s) > Rows THEN Len(s) - Rows + 1 ELSE 1, Len(s))

\* As long as memory is found and no oops happens, whatever is drawn on the screen
\* leaves the output view with the lines that were output last, as many as fit
\* and in order: scrolling by one node per line added keeps pace, although the
\* loop that counts them goes round the circle and counts the head too.
TailShown == [][loaded' /\ ~oops' /\ ~scarce => shown'["output"] = Latest(log')]_vars
=============================================================================
