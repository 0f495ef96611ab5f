----------------------------- MODULE MemberList -----------------------------
(***************************************************************************)
(* What the face list promises the page and the door: a list of members, of *)
(* whom some have registered their face, each a face of their own; and a     *)
(* door that opens for these, but for one face at a time that is being taken *)
(* in or let go.                                                           *)
(***************************************************************************)
CONSTANTS
  Ids,       \* members by id
  Labels,    \* list type and name
  Persons,   \* faces
  NoPerson   \* no face registered

VARIABLES
  members,   \* the ids on the list -> [label, face]
  door       \* the faces the door opens for

vars == <<members, door>>

OnList  == DOMAIN members
Faces   == {members[i].face : i \in OnList} \ {NoPerson}
Agree   == door = Faces
Without == {i \in OnList : members[i].face = NoPerson}

Only(S)          == [i \in S |-> members[i]]
Entry(i, member) == members' = [j \in OnList \cup {i} |-> IF j = i THEN member ELSE members[j]]

Init == OnList = {} /\ door = {}

\* a new member has no face yet
Add(i, label) == /\ i \notin OnList
                 /\ Entry(i, [label |-> label, face |-> NoPerson])
                 /\ UNCHANGED door

\* another name, and perhaps a new picture to be registered
Modify(i, label) == /\ i \in OnList
                    /\ \E face \in {NoPerson, members[i].face} :
                         Entry(i, [label |-> label, face |-> face])
                    /\ UNCHANGED door

Delete(i) == /\ i \in OnList
             /\ members' = Only(OnList \ {i})
             /\ UNCHANGED door

\* only who has no face is dropped without being named
Drop == /\ \E S \in SUBSET Without : members' = Only(OnList \ S)
        /\ UNCHANGED door

Clear == members' = Only({}) /\ door' = {}

\* the door learns the face of a picture, then the list who it is
Learn == /\ \E f \in Persons \ door : door' = door \cup {f}
         /\ Without # {}
         /\ UNCHANGED members

Register(i) == /\ i \in Without
               /\ \E f \in door \ Faces : Entry(i, [label |-> members[i].label, face |-> f])
               /\ UNCHANGED door

\* the door forgets a face once no member has it
Forget == /\ \E f \in door \ Faces : door' = door \ {f}
          /\ UNCHANGED members

Begin == \/ \E i \in Ids, label \in Labels : Add(i, label) \/ Modify(i, label)
         \/ \E i \in Ids : Delete(i)
         \/ Drop \/ Clear \/ Learn

Next == (Agree /\ Begin) \/ (\E i \in Ids : Register(i)) \/ Forget

Spec == Init /\ [][Next]_vars
=============================================================================
