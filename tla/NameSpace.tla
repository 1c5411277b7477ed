------------------------------ MODULE NameSpace ------------------------------
(***************************************************************************)
(* What directories promise: a name in a directory stands for one file     *)
(* that exists, a new name gets a file no other name stands for, and a     *)
(* file ends with its name.                                                *)
(***************************************************************************)
EXTENDS Integers

CONSTANTS Root, Nodes, Names

VARIABLES
    links,  \* the triples <<directory, name, file>>
    live    \* the files that exist, directories among them

vars == <<links, live>>

NamesIn(d) == {l[2] : l \in {x \in links : x[1] = d}}

\* The root exists, and every other file that exists has one name.
Init == /\ links \in SUBSET (Nodes \X Names \X Nodes)
        /\ live = {Root} \cup {l[3] : l \in links}
        /\ \A l \in links : l[1] \in live /\ l[3] # Root
        /\ \A l, m \in links : l[3] = m[3] \/ (l[1] = m[1] /\ l[2] = m[2]) => l = m

Create == \E d \in live, n \in Names, f \in Nodes \ live :
             /\ n \notin NamesIn(d)
             /\ live' = live \cup {f}
             /\ links' = links \cup {<<d, n, f>>}

\* Only a file without names below it is removed.
Remove == \E l \in links :
             /\ NamesIn(l[3]) = {}
             /\ live' = live \ {l[3]}
             /\ links' = links \ {l}

Next == Create \/ Remove

Spec == Init /\ [][Next]_vars

=============================================================================
