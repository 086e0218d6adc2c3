------------------------------ MODULE PathList ------------------------------
(***************************************************************************)
(* Structured path lists of libfrog (src/libfrog/paths.c, from line 565):  *)
(* a list of components (inode number and file name), built by adding     *)
(* parent components at the front and components at the end, and the     *)
(* functions that walk it: path_will_loop and path_list_to_string.  A     *)
(* file name is abstracted to its length, which                           *)
(* is all path_list_to_string's bounds checks look at.                    *)
(***************************************************************************)
EXTENDS Naturals, Integers, Sequences, SequencesExt

CONSTANTS
  Inos,           \* inode numbers of components (positive)
  NameLens,       \* lengths of component names
  MaxComponents,  \* the 256 of path_will_loop, scaled down
  MaxListLen,     \* bound on the list length explored
  MaxBuf          \* largest buflen given to path_list_to_string

VARIABLE
  comps           \* the list, head first: Seq of [ino, len]

vars == <<comps>>

Component == [ino : Inos, len : NameLens]
NULL == [ino |-> 0, len |-> 0]   \* stands for the NULL path_component_init returns

-----------------------------------------------------------------------------
(* The walks, as recursive operators over the list from position k.        *)

\* Plausible bug: the length limit is tested with >= (++nr >= 256).
RECURSIVE WillLoopFromOffByOne(_, _, _, _)
WillLoopFromOffByOne(list, ino, k, nr) ==
  IF k > Len(list) THEN FALSE
  ELSE IF list[k].ino = ino THEN TRUE
  ELSE IF nr + 1 >= MaxComponents THEN TRUE
  ELSE WillLoopFromOffByOne(list, ino, k + 1, nr + 1)

PathWillLoopOffByOne(list, ino) == WillLoopFromOffByOne(list, ino, 1, 0)

\* path_will_loop's list_for_each_entry: a component with this inode is a
\* loop; so is reaching component number MaxComponents + 1.
RECURSIVE WillLoopFrom(_, _, _, _)
WillLoopFrom(list, ino, k, nr) ==
  IF k > Len(list) THEN FALSE
  ELSE IF list[k].ino = ino THEN TRUE
  ELSE IF nr + 1 > MaxComponents THEN TRUE
  ELSE WillLoopFrom(list, ino, k + 1, nr + 1)

PathWillLoop(list, ino) == WillLoopFrom(list, ino, 1, 0)

\* Plausible bug: the check leaves no room for the terminating NUL
\* (ret > buflen).
RECURSIVE ToStringFromNoNul(_, _, _, _)
ToStringFromNoNul(list, k, buflen, bytes) ==
  IF k > Len(list) THEN bytes
  ELSE LET ret == 1 + list[k].len IN
       IF buflen = 0 \/ ret > buflen THEN -1
       ELSE ToStringFromNoNul(list, k + 1, buflen - ret, bytes + ret)

PathListToStringNoNul(list, buflen) == ToStringFromNoNul(list, 1, buflen, 0)

\* path_list_to_string's loop: snprintf(buf, buflen, "/%s", name) returns
\* 1 + strlen(name); the component fits if that is below the room left
\* (one byte stays for the NUL); buf and buflen move past it.  buflen = 0
\* is the buf >= buf_end test.
RECURSIVE ToStringFrom(_, _, _, _)
ToStringFrom(list, k, buflen, bytes) ==
  IF k > Len(list) THEN bytes
  ELSE LET ret == 1 + list[k].len IN
       IF buflen = 0 \/ ret >= buflen THEN -1
       ELSE ToStringFrom(list, k + 1, buflen - ret, bytes + ret)

PathListToString(list, buflen) == ToStringFrom(list, 1, buflen, 0)

-----------------------------------------------------------------------------
(* The list operations.                                                    *)

\* Plausible bug: the caller links the result of path_component_init
\* without checking it for NULL.
PathListAddParentComponentNoNullCheck(c) ==
  /\ Len(comps) < MaxListLen
  /\ comps' = <<c>> \o comps \/ comps' = <<NULL>> \o comps

\* path_component_init + path_list_add_parent_component (list_add at the
\* head).  A failed malloc or strdup returns NULL and adds nothing.
PathListAddParentComponent(c) ==
  /\ Len(comps) < MaxListLen
  /\ comps' = <<c>> \o comps

\* path_component_init + path_list_add_component (list_add_tail).
PathListAddComponent(c) ==
  /\ Len(comps) < MaxListLen
  /\ comps' = Append(comps, c)

\* path_list_del_component + path_component_free of the k-th component.
PathListDelComponent(k) ==
  /\ k \in 1..Len(comps)
  /\ comps' = RemoveAt(comps, k)

\* path_list_free: delete and free every component, then the list;
\* path_list_init gives the caller a fresh empty list.
PathListFree ==
  /\ comps # <<>>
  /\ comps' = <<>>

Init == comps = <<>>

Next ==
  \/ \E c \in Component : PathListAddParentComponent(c) \/ PathListAddComponent(c)
  \/ \E k \in 1..MaxListLen : PathListDelComponent(k)
  \/ PathListFree

Spec == Init /\ [][Next]_vars

-----------------------------------------------------------------------------
(* Properties: each walk against what it is for.                          *)

TypeOK == comps \in Seq(Component)

\* path_will_loop says "loop" exactly when the inode is already on the path
\* or the path already has more than MaxComponents components, for every
\* list the add/delete operations can build.
WillLoopMeansRepeatOrTooLong ==
  \A ino \in Inos :
    PathWillLoop(comps, ino) <=>
      \/ \E k \in 1..Len(comps) : comps[k].ino = ino
      \/ Len(comps) > MaxComponents

\* path_list_to_string returns the length of "/name1/name2..." when that
\* string and its NUL fit in buflen bytes, and -1 otherwise.
ToStringFitsOrFails ==
  \A buflen \in 0..MaxBuf :
    LET total == Len(comps) + FoldLeft(LAMBDA acc, c : acc + c.len, 0, comps)
    IN  PathListToString(comps, buflen) =
          IF comps = <<>> THEN 0 ELSE IF total < buflen THEN total ELSE -1

=============================================================================
