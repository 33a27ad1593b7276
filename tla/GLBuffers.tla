------------------------------ MODULE GLBuffers ------------------------------
(***************************************************************************)
(* What ARB_vertex_buffer_object promises the game through the four        *)
(* function slots glGenBuffers, glBindBuffer, glBufferData and             *)
(* glDeleteBuffers: a set of live names, a data store per live name and a  *)
(* binding per target.  Nothing else ever changes them; in particular a    *)
(* name stays live, and keeps its store, until the game deletes it.        *)
(* WinVbo is the detailed specification that implements this one.          *)
(***************************************************************************)
EXTENDS Naturals

CONSTANTS Ids,        \* the names GL can hand out; 0 is no name
          Payloads,   \* contents a data store can be given
          NoData      \* a name without a data store

VARIABLES names,      \* live names
          content,    \* data store of each name
          bound       \* the name bound to each target, 0 for none

vars == <<names, content, bound>>

BindTargets == {"array", "elem"}

Init == /\ names = {}
        /\ content = [id \in Ids |-> NoData]
        /\ bound = [t \in BindTargets |-> 0]

Gen(id) == /\ id \notin names
           /\ names' = names \cup {id}
           /\ UNCHANGED <<content, bound>>

Bind(t, id) == /\ id \in names \cup {0}
               /\ bound' = [bound EXCEPT ![t] = id]
               /\ UNCHANGED <<names, content>>

(* GL may run out of memory and leave the name without a store. *)
BufferData(t, p) ==
    /\ bound[t] # 0
    /\ content' \in {[content EXCEPT ![bound[t]] = d] : d \in {p, NoData}}
    /\ UNCHANGED <<names, bound>>

Delete(id) ==
    /\ id \in names
    /\ names' = names \ {id}
    /\ content' = [content EXCEPT ![id] = NoData]
    /\ bound' = [t \in BindTargets |-> IF bound[t] = id THEN 0 ELSE bound[t]]

Next == \E id \in Ids, t \in BindTargets, p \in Payloads :
           Gen(id) \/ Bind(t, id) \/ Bind(t, 0) \/ BufferData(t, p) \/ Delete(id)

Spec == Init /\ [][Next]_vars
=============================================================================
