------------------------ MODULE HandleRotation_proofs ------------------------
(***************************************************************************)
(* Proofs about HandleRotation, for any number of fds, any kinds, and       *)
(* timeouts that drop whatever they may drop: an open name leads to its     *)
(* handle, a pipe stays usable where it is, and a handle has as many        *)
(* registry entries as open names.                                          *)
(***************************************************************************)
EXTENDS HandleRotation, FiniteSetTheorems, TLAPS

\* What has not been allocated yet is nowhere.
Fresh ==
    /\ \A r \in Fds : r >= next => current[r] = None /\ handle[r] = None
    /\ \A b \in Branches, r \in Fds : r >= next => reg[b][r] = None
    /\ \A r \in Fds : current[r] < next /\ handle[r] < next
    /\ \A b \in Branches, r \in Fds : reg[b][r] < next
    /\ \A b \in Branches : taken[b].name < next /\ taken[b].handle < next

\* Programs know names only; a fd the rotation has made is nobody's name, and
\* leads to one name.
Named ==
    /\ \A b \in Branches : \A n \in seen[b] : handle[n] # None
    /\ \A m \in Fds : current[m] \notin {None, m} => handle[current[m]] = None
    /\ \A m, n \in Fds : current[m] = current[n] /\ current[m] # None => m = n

\* In no registry does a name lead to another's handle.
Faithful ==
    \A b \in Branches, n \in Fds :
        /\ current[n] # None => reg[b][current[n]] \in {None, handle[n]}
        /\ handle[n] # None => reg[b][n] \in {None, handle[n]}

\* A handle in hand is the one of its name and nowhere else; its name is in
\* the table as long as nobody has closed it.
InHand ==
    /\ \A b \in Branches : taken[b] # Idle =>
        /\ taken[b].handle = handle[taken[b].name]
        /\ taken[b].name \notin closed => current[taken[b].name] # None
        /\ \A c \in Branches, r \in Fds : reg[c][r] # taken[b].handle
    /\ \A b, c \in Branches :
        taken[b] # Idle /\ taken[b].handle = taken[c].handle => b = c

\* Only the branches that run have a program that knows names.
Running ==
    /\ phase # "forked" => \A b \in Children : seen[b] = {}
    /\ phase = "forked" => taken[Root] = Idle

IInv ==
    /\ TypeOK /\ Room(0) /\ Fresh /\ Named /\ Faithful /\ InHand /\ Running
    /\ HandleReachable /\ PipesUsable

LEMMA Bounds ==
    ASSUME TypeOK, Fresh
    PROVE  /\ \A c \in Branches, s \in Fds : reg[c][s] \in Fds \cup {None} /\ reg[c][s] < next
           /\ \A s \in Fds : current[s] \in Fds \cup {None} /\ current[s] < next
           /\ \A s \in Fds : handle[s] \in Fds \cup {None} /\ handle[s] < next
<1>1. \A c \in Branches, s \in Fds : reg[c][s] \in Fds \cup {None}
  BY DEF TypeOK
<1>2. \A s \in Fds : current[s] \in Fds \cup {None} /\ handle[s] \in Fds \cup {None}
  BY DEF TypeOK
<1> QED
  BY <1>1, <1>2 DEF Fresh

\* What the proofs use of the types and of IInv.
LEMMA Facts ==
    ASSUME IInv
    PROVE  /\ \A c \in Branches, s \in Fds : reg[c][s] \in Fds \cup {None} /\ reg[c][s] < next
           /\ \A s \in Fds : current[s] \in Fds \cup {None} /\ current[s] < next
           /\ \A s \in Fds : handle[s] \in Fds \cup {None} /\ handle[s] < next
           /\ \A c \in Branches, s \in Fds :
                current[s] # None => reg[c][current[s]] \in {None, handle[s]}
           /\ \A s \in Fds : s >= next => handle[s] = None /\ current[s] = None
           /\ \A c \in Branches, s \in Fds : s >= next => reg[c][s] = None
           /\ \A s, t \in Fds : current[s] = current[t] /\ current[s] # None => s = t
           /\ \A c \in Branches : seen[c] \subseteq Fds
           /\ \A c \in Branches : \A s \in seen[c] : handle[s] # None /\ s < next
           /\ closed \subseteq Fds /\ strayed \subseteq Fds
           /\ next \in 1 .. MaxFds + 1
           /\ \A c \in Branches : taken[c] # Idle =>
                taken[c].name \in Fds /\ taken[c].handle \in Fds /\ taken[c].handle < next
                /\ taken[c].handle = handle[taken[c].name]
           /\ \A c \in Branches : taken[c].handle < next
<1> USE DEF IInv
<1>1. TypeOK /\ Fresh /\ Named /\ Faithful /\ InHand
  OBVIOUS
<1>2. \A c \in Branches : \A s \in seen[c] : handle[s] # None /\ s < next
  BY KindAssumption, <1>1 DEF TypeOK, Fresh, Named, Fds
<1>3. \A c \in Branches : taken[c] # Idle => taken[c].name \in Fds /\ taken[c].handle \in Fds
  BY <1>1 DEF TypeOK
<1> QED
  BY <1>1, <1>2, <1>3, Bounds DEF TypeOK, Fresh, Named, Faithful, InHand

LEMMA OpenKeeps ==
    ASSUME IInv, NEW b \in Branches, NEW k \in Kinds, Open(b, k)
    PROVE  IInv'
<1> USE KindAssumption DEF IInv, Open, history, table, Ready, Room, Pending, Idle, None, Fds, Branches, Children
<1>a. next \in Fds /\ next + 1 \in 1 .. MaxFds + 1
  BY DEF TypeOK
<1>b. \A c \in Branches, s \in Fds :
         reg'[c][s] = IF c = b /\ s = next THEN next ELSE reg[c][s]
  BY <1>a DEF TypeOK
<1>n. None < next' /\ next < next' /\ \A x \in Fds \cup {None} : x < next => x < next'
  BY <1>a DEF TypeOK
<1>1. TypeOK'
  <2>1. next' \in 1 .. MaxFds + 1
    BY <1>a, <1>b DEF TypeOK
  <2>2. reg' \in [Branches -> [Fds -> Fds \cup {None}]]
    BY <1>a, <1>b DEF TypeOK, NoHandles
  <2>3. current' \in [Fds -> Fds \cup {None}]
    BY <1>a, <1>b DEF TypeOK
  <2>4. taken' \in [Branches -> [name : Fds, handle : Fds] \cup {Idle}]
    BY <1>a, <1>b DEF TypeOK
  <2>5. kind' \in [Fds -> AllKinds]
    BY <1>a, <1>b DEF TypeOK, AllKinds, Rotating
  <2>6. handle' \in [Fds -> Fds \cup {None}]
    BY <1>a, <1>b DEF TypeOK
  <2> QED
    BY SMTT(60), <1>a, <1>b, <2>1, <2>2, <2>3, <2>4, <2>5, <2>6 DEF TypeOK
<1>2. Room(0)'
  BY <1>a, <1>b DEF TypeOK
<1>3. Fresh'
  <2>1. \A r \in Fds : r >= next' => current'[r] = None /\ handle'[r] = None
    BY <1>a, <1>b DEF TypeOK, Fresh, Translated, NoHandles, InHand
  <2>2. \A c \in Branches, r \in Fds : r >= next' => reg'[c][r] = None
    BY <1>a, <1>b DEF TypeOK, Fresh, Translated, NoHandles, InHand
  <2>3. \A r \in Fds : current'[r] < next' /\ handle'[r] < next'
    BY Bounds, <1>n, <1>a, <1>b DEF TypeOK
  <2>4. \A c \in Branches, r \in Fds : reg'[c][r] < next'
    BY Bounds, <1>n, <1>a, <1>b
  <2>5. \A c \in Branches : taken'[c].name < next' /\ taken'[c].handle < next'
    BY <1>a, <1>b DEF TypeOK, Fresh, Translated, NoHandles, InHand
  <2> QED
    BY <2>1, <2>2, <2>3, <2>4, <2>5 DEF Fresh
<1>4. Named'
  BY <1>a, <1>b DEF TypeOK, Fresh, Named, Translated
<1>5. Faithful'
  BY <1>a, <1>b DEF TypeOK, Fresh, Named, Faithful, Translated, NoHandles
<1>6. InHand'
  BY SMTT(60), <1>a, <1>b DEF TypeOK, Fresh, Named, Faithful, InHand, Translated, NoHandles
<1>7. Running'
  BY <1>a, <1>b DEF TypeOK, Running, Active
<1>8. HandleReachable'
  BY <1>a, <1>b DEF TypeOK, Fresh, Named, Faithful, InHand, Running, HandleReachable, Reachable, Translated, NoHandles, Rotating, Active
<1>9. PipesUsable'
  BY <1>a, <1>b DEF TypeOK, Fresh, Named, Faithful, InHand, Running, HandleReachable, Reachable, PipesUsable, PipeFound, pipe_fd_stale, Translated, NoHandles, Rotating, Active
<1> QED
  BY <1>1, <1>2, <1>3, <1>4, <1>5, <1>6, <1>7, <1>8, <1>9

LEMMA PipeOpenKeeps ==
    ASSUME IInv, NEW b \in Branches, PipeOpen(b)
    PROVE  IInv'
<1> USE KindAssumption DEF IInv, PipeOpen, history, table, Ready, Room, Pending, Idle, None, Fds, Branches, Children
<1>a. next \in Fds /\ next + 1 \in Fds /\ next + 2 \in 1 .. MaxFds + 1
  BY DEF TypeOK
<1>b. \A c \in Branches, s \in Fds :
         reg'[c][s] = IF c = b /\ s \in {next, next + 1} THEN s ELSE reg[c][s]
  BY <1>a DEF TypeOK
<1>n. None < next' /\ next < next' /\ next + 1 < next' /\ \A x \in Fds \cup {None} : x < next => x < next'
  BY <1>a DEF TypeOK
<1>1. TypeOK'
  <2>1. next' \in 1 .. MaxFds + 1
    BY <1>a, <1>b DEF TypeOK
  <2>2. reg' \in [Branches -> [Fds -> Fds \cup {None}]]
    BY <1>a, <1>b DEF TypeOK, NoHandles
  <2>3. current' \in [Fds -> Fds \cup {None}]
    BY <1>a, <1>b DEF TypeOK
  <2>4. taken' \in [Branches -> [name : Fds, handle : Fds] \cup {Idle}]
    BY <1>a, <1>b DEF TypeOK
  <2>5. kind' \in [Fds -> AllKinds]
    BY <1>a, <1>b DEF TypeOK, AllKinds, Rotating
  <2>6. handle' \in [Fds -> Fds \cup {None}]
    BY <1>a, <1>b DEF TypeOK
  <2>7. pipes' \in SUBSET Fds
    BY <1>a DEF TypeOK
  <2>8. seen' \in [Branches -> SUBSET Fds]
    BY <1>a DEF TypeOK
  <2>9. closed' \in SUBSET Fds /\ strayed' \in SUBSET Fds
    BY <1>a DEF TypeOK
  <2> QED
    BY <1>a, <1>b, <2>1, <2>2, <2>3, <2>4, <2>5, <2>6, <2>7, <2>8, <2>9 DEF TypeOK
<1>2. Room(0)'
  BY <1>a, <1>b DEF TypeOK
<1>3. Fresh'
  <2>1. \A r \in Fds : r >= next' => current'[r] = None /\ handle'[r] = None
    BY <1>a, <1>b DEF TypeOK, Fresh, Translated, NoHandles, InHand
  <2>2. \A c \in Branches, r \in Fds : r >= next' => reg'[c][r] = None
    BY <1>a, <1>b DEF TypeOK, Fresh, Translated, NoHandles, InHand
  <2>3. \A r \in Fds : current'[r] < next' /\ handle'[r] < next'
    BY Bounds, <1>n, <1>a, <1>b DEF TypeOK
  <2>4. \A c \in Branches, r \in Fds : reg'[c][r] < next'
    BY Bounds, <1>n, <1>a, <1>b
  <2>5. \A c \in Branches : taken'[c].name < next' /\ taken'[c].handle < next'
    BY <1>a, <1>b DEF TypeOK, Fresh, Translated, NoHandles, InHand
  <2> QED
    BY <2>1, <2>2, <2>3, <2>4, <2>5 DEF Fresh
<1>4. Named'
  BY <1>a, <1>b DEF TypeOK, Fresh, Named, Translated
<1>5. Faithful'
  <2>f. IInv /\ current' = current
    OBVIOUS
  <2>g. \A s \in Fds : handle'[s] = IF s \in {next, next + 1} THEN s ELSE handle[s]
    BY <1>a DEF TypeOK
  <2>h. \A s \in Fds : current[s] \notin {next, next + 1}
    <3>1. next \in Nat /\ next + 1 >= next
      BY DEF TypeOK
    <3> QED
      BY <3>1, <1>a, <2>f, Facts
  <2>i. \A s \in {next, next + 1} : current[s] = None /\ \A c \in Branches : reg[c][s] = None
    <3>1. next \in Nat /\ next + 1 >= next /\ next >= next
      BY DEF TypeOK
    <3> QED
      BY <3>1, <1>a, <2>f, Facts
  <2>1. \A c \in Branches, s \in Fds : current[s] # None => reg'[c][current[s]] \in {None, handle'[s]}
    <3> HIDE KindAssumption DEF IInv, PipeOpen, history, table, Ready, Room, Pending, Idle, Fds, Branches, Children
    <3> TAKE c \in Branches, s \in Fds
    <3> HAVE current[s] # None
    <3>1. current[s] \in Fds /\ current[s] \notin {next, next + 1}
      BY <2>f, <2>h, Facts
    <3>2. s \notin {next, next + 1}
      BY <2>i
    <3> QED
      BY <3>1, <3>2, <1>b, <2>f, <2>g, Facts
  <2>2. \A c \in Branches, s \in Fds : handle'[s] # None => reg'[c][s] \in {None, handle'[s]}
    <3> HIDE KindAssumption DEF IInv, PipeOpen, history, table, Ready, Room, Pending, Idle, Fds, Branches, Children
    <3> TAKE c \in Branches, s \in Fds
    <3>1. CASE s \in {next, next + 1}
      BY <3>1, <1>b, <2>g, <2>i
    <3>2. CASE s \notin {next, next + 1}
      BY <3>2, <1>b, <2>f, <2>g DEF IInv, Faithful
    <3> QED
      BY <3>1, <3>2
  <2> QED
    BY <2>f, <2>1, <2>2 DEF Faithful
<1>6. InHand'
  BY SMTT(60), <1>a, <1>b DEF TypeOK, Fresh, Named, Faithful, InHand, Translated, NoHandles
<1>7. Running'
  BY <1>a, <1>b DEF TypeOK, Running, Active
<1>8. HandleReachable'
  BY SMTT(60), <1>a, <1>b DEF TypeOK, Fresh, Named, Faithful, InHand, Running, HandleReachable, Reachable, Translated, NoHandles, Rotating, Active
<1>9. PipesUsable'
  BY SMTT(60), <1>a, <1>b DEF TypeOK, Fresh, Named, Faithful, InHand, Running, HandleReachable, Reachable, PipesUsable, PipeFound, pipe_fd_stale, Translated, NoHandles, Rotating, Active
<1> QED
  BY <1>1, <1>2, <1>3, <1>4, <1>5, <1>6, <1>7, <1>8, <1>9

LEMMA TakeKeeps ==
    ASSUME IInv, NEW b \in Branches, NEW n \in Fds, Take(b, n)
    PROVE  IInv'
<1> USE KindAssumption DEF IInv, Take, Found, Sole, history, table, Ready, Room, Pending, Idle, None, Fds, Branches, Children
<1>a. current[n] \in Fds /\ reg[b][current[n]] \in Fds
  BY DEF TypeOK
<1>b. \A c \in Branches, s \in Fds :
         reg'[c][s] = IF c = b /\ s = current[n] THEN None ELSE reg[c][s]
  BY <1>a DEF TypeOK
<1>c. \A c \in Branches : taken'[c] = IF c = b THEN [name |-> n, handle |-> reg[b][current[n]]]
                                              ELSE taken[c]
  BY <1>a DEF TypeOK
<1>1. TypeOK'
  <2>1. next' \in 1 .. MaxFds + 1
    BY <1>a, <1>b, <1>c DEF TypeOK
  <2>2. reg' \in [Branches -> [Fds -> Fds \cup {None}]]
    BY ZenonT(60), <1>a, <1>b, <1>c DEF TypeOK, NoHandles
  <2>3. current' \in [Fds -> Fds \cup {None}]
    BY <1>a, <1>b, <1>c DEF TypeOK
  <2>4. taken' \in [Branches -> [name : Fds, handle : Fds] \cup {Idle}]
    BY <1>a, <1>b, <1>c DEF TypeOK
  <2>5. kind' \in [Fds -> AllKinds]
    BY <1>a, <1>b, <1>c DEF TypeOK, AllKinds, Rotating
  <2>6. handle' \in [Fds -> Fds \cup {None}]
    BY <1>a, <1>b, <1>c DEF TypeOK
  <2> QED
    BY <1>a, <1>b, <1>c, <2>1, <2>2, <2>3, <2>4, <2>5, <2>6 DEF TypeOK
<1>2. Room(0)'
  BY <1>a, <1>b, <1>c DEF TypeOK
<1>3. Fresh'
  BY SMTT(60), <1>a, <1>b, <1>c DEF TypeOK, Fresh, Translated, NoHandles, InHand
<1>4. Named'
  BY <1>a, <1>b, <1>c DEF TypeOK, Fresh, Named, Translated
<1>5. Faithful'
  BY SMTT(60), <1>a, <1>b, <1>c DEF TypeOK, Fresh, Named, Faithful, Translated, NoHandles
<1>6. InHand'
  <2>1. \A c \in Branches : taken'[c] # Idle => taken'[c].handle = handle'[taken'[c].name]
    BY SMTT(60), <1>a, <1>b, <1>c DEF TypeOK, Fresh, Named, Faithful, InHand, Translated, NoHandles
  <2>2. \A c \in Branches : taken'[c] # Idle /\ taken'[c].name \notin closed' => current'[taken'[c].name] # None
    BY <1>a, <1>b, <1>c DEF TypeOK, Fresh, Named, Faithful, InHand, Translated, NoHandles
  <2>3. \A c, e \in Branches, r \in Fds : taken'[c] # Idle => reg'[e][r] # taken'[c].handle
    BY SMTT(60), <1>a, <1>b, <1>c DEF TypeOK, Fresh, Named, Faithful, InHand, Translated, NoHandles
  <2>4. \A c, e \in Branches : taken'[c] # Idle /\ taken'[c].handle = taken'[e].handle => c = e
    BY <1>a, <1>b, <1>c DEF TypeOK, Fresh, Named, Faithful, InHand, Translated, NoHandles
  <2> QED
    <3> HIDE KindAssumption DEF IInv, Take, Found, Sole, history, table, Ready, Room, Pending, Idle, None, Fds, Branches, Children
    <3> QED
      BY <2>1, <2>2, <2>3, <2>4 DEF InHand
<1>7. Running'
  BY <1>a, <1>b, <1>c DEF TypeOK, Running, Active
<1>8. HandleReachable'
  BY SMTT(60), <1>a, <1>b, <1>c DEF TypeOK, Fresh, Named, Faithful, InHand, Running, HandleReachable, Reachable, Translated, NoHandles, Rotating, Active
<1>9. PipesUsable'
  BY SMTT(60), <1>a, <1>b, <1>c DEF TypeOK, Fresh, Named, Faithful, InHand, Running, HandleReachable, Reachable, PipesUsable, PipeFound, pipe_fd_stale, Translated, NoHandles, Rotating, Active
<1> QED
  BY <1>1, <1>2, <1>3, <1>4, <1>5, <1>6, <1>7, <1>8, <1>9

LEMMA RotateKeeps ==
    ASSUME IInv, NEW b \in Branches, NEW n \in Fds, Rotate(b, n)
    PROVE  IInv'
<1> USE KindAssumption DEF IInv, Rotate, Found, Strays, history, table, Ready, Room, Pending, Idle, None, Fds, Branches, Children
<1>a. next \in Fds /\ next + 1 \in 1 .. MaxFds + 1 /\ current[n] \in Fds /\ reg[b][current[n]] \in Fds
  BY DEF TypeOK
<1>b. \A c \in Branches, s \in Fds :
         reg'[c][s] = IF c = b /\ s = next THEN reg[b][current[n]]
                      ELSE IF c = b /\ s = current[n] THEN None ELSE reg[c][s]
  BY <1>a DEF TypeOK
<1>c. \A s \in Fds : current'[s] = IF s = n THEN next ELSE current[s]
  BY <1>a DEF TypeOK
<1>n. None < next' /\ next < next' /\ \A x \in Fds \cup {None} : x < next => x < next'
  BY <1>a DEF TypeOK
<1>1. TypeOK'
  <2>1. next' \in 1 .. MaxFds + 1
    BY <1>a, <1>b, <1>c DEF TypeOK
  <2>2. reg' \in [Branches -> [Fds -> Fds \cup {None}]]
    BY <1>a, <1>b, <1>c DEF TypeOK, NoHandles
  <2>3. current' \in [Fds -> Fds \cup {None}]
    BY <1>a, <1>b, <1>c DEF TypeOK
  <2>4. taken' \in [Branches -> [name : Fds, handle : Fds] \cup {Idle}]
    BY <1>a, <1>b, <1>c DEF TypeOK
  <2>5. kind' \in [Fds -> AllKinds]
    BY <1>a, <1>b, <1>c DEF TypeOK, AllKinds, Rotating
  <2>6. handle' \in [Fds -> Fds \cup {None}]
    BY <1>a, <1>b, <1>c DEF TypeOK
  <2> QED
    BY <1>a, <1>b, <1>c, <2>1, <2>2, <2>3, <2>4, <2>5, <2>6 DEF TypeOK
<1>2. Room(0)'
  BY <1>a, <1>b, <1>c DEF TypeOK
<1>3. Fresh'
  <2>1. \A r \in Fds : r >= next' => current'[r] = None /\ handle'[r] = None
    BY <1>a, <1>b, <1>c DEF TypeOK, Fresh, Translated, NoHandles, InHand
  <2>2. \A c \in Branches, r \in Fds : r >= next' => reg'[c][r] = None
    BY <1>a, <1>b, <1>c DEF TypeOK, Fresh, Translated, NoHandles, InHand
  <2>3. \A r \in Fds : current'[r] < next' /\ handle'[r] < next'
    BY ZenonT(60), Bounds, <1>n, <1>a, <1>b, <1>c DEF TypeOK
  <2>4. \A c \in Branches, r \in Fds : reg'[c][r] < next'
    BY Bounds, <1>n, <1>a, <1>b, <1>c
  <2>5. \A c \in Branches : taken'[c].name < next' /\ taken'[c].handle < next'
    BY <1>a, <1>b, <1>c DEF TypeOK, Fresh, Translated, NoHandles, InHand
  <2> QED
    BY <2>1, <2>2, <2>3, <2>4, <2>5 DEF Fresh
<1>4. Named'
  BY SMTT(60), <1>a, <1>b, <1>c DEF TypeOK, Fresh, Named, Translated
<1>5. Faithful'
  <2>1. \A c \in Branches, s \in Fds : current'[s] # None => reg'[c][current'[s]] \in {None, handle'[s]}
    BY SMTT(60), <1>a, <1>b, <1>c DEF TypeOK, Fresh, Named, Faithful, Translated, NoHandles
  <2>2. \A c \in Branches, s \in Fds : handle'[s] # None => reg'[c][s] \in {None, handle'[s]}
    BY SMTT(60), <1>a, <1>b, <1>c DEF TypeOK, Fresh, Named, Faithful, Translated, NoHandles
  <2> QED
    BY <2>1, <2>2 DEF Faithful
<1>6. InHand'
  <2>1. \A c \in Branches : taken'[c] # Idle => taken'[c].handle = handle'[taken'[c].name]
    BY <1>a, <1>b, <1>c DEF TypeOK, Fresh, Named, Faithful, InHand, Translated, NoHandles
  <2>2. \A c \in Branches : taken'[c] # Idle /\ taken'[c].name \notin closed' => current'[taken'[c].name] # None
    BY <1>a, <1>b, <1>c DEF TypeOK, Fresh, Named, Faithful, InHand, Translated, NoHandles
  <2>3. \A c, e \in Branches, r \in Fds : taken'[c] # Idle => reg'[e][r] # taken'[c].handle
    BY SMTT(60), <1>a, <1>b, <1>c DEF TypeOK, Fresh, Named, Faithful, InHand, Translated, NoHandles
  <2>4. \A c, e \in Branches : taken'[c] # Idle /\ taken'[c].handle = taken'[e].handle => c = e
    BY <1>a, <1>b, <1>c DEF TypeOK, Fresh, Named, Faithful, InHand, Translated, NoHandles
  <2> QED
    BY SMTT(60), <2>1, <2>2, <2>3, <2>4 DEF InHand
<1>7. Running'
  BY <1>a, <1>b, <1>c DEF TypeOK, Running, Active
<1>8. HandleReachable'
  BY SMTT(60), <1>a, <1>b, <1>c DEF TypeOK, Fresh, Named, Faithful, InHand, Running, HandleReachable, Reachable, Translated, NoHandles, Rotating, Active
<1>9. PipesUsable'
  BY SMTT(60), <1>a, <1>b, <1>c DEF TypeOK, Fresh, Named, Faithful, InHand, Running, HandleReachable, Reachable, PipesUsable, PipeFound, pipe_fd_stale, Translated, NoHandles, Rotating, Active
<1> QED
  BY <1>1, <1>2, <1>3, <1>4, <1>5, <1>6, <1>7, <1>8, <1>9

LEMMA ShutdownLosesKeeps ==
    ASSUME IInv, NEW b \in Branches, NEW n \in Fds, ShutdownLoses(b, n)
    PROVE  IInv'
<1> USE KindAssumption DEF IInv, ShutdownLoses, Found, Sole, history, table, Ready, Room, Pending, Idle, None, Fds, Branches, Children
<1>a. current[n] \in Fds
  BY DEF TypeOK
<1>b. \A c \in Branches, s \in Fds :
         reg'[c][s] = IF c = b /\ s = current[n] THEN None ELSE reg[c][s]
  BY <1>a DEF TypeOK
<1>1. TypeOK'
  <2>1. next' \in 1 .. MaxFds + 1
    BY <1>a, <1>b DEF TypeOK
  <2>2. reg' \in [Branches -> [Fds -> Fds \cup {None}]]
    BY <1>a, <1>b DEF TypeOK, NoHandles
  <2>3. current' \in [Fds -> Fds \cup {None}]
    BY <1>a, <1>b DEF TypeOK
  <2>4. taken' \in [Branches -> [name : Fds, handle : Fds] \cup {Idle}]
    BY <1>a, <1>b DEF TypeOK
  <2>5. kind' \in [Fds -> AllKinds]
    BY <1>a, <1>b DEF TypeOK, AllKinds, Rotating
  <2>6. handle' \in [Fds -> Fds \cup {None}]
    BY <1>a, <1>b DEF TypeOK
  <2> QED
    BY <1>a, <1>b, <2>1, <2>2, <2>3, <2>4, <2>5, <2>6 DEF TypeOK
<1>2. Room(0)'
  BY <1>a, <1>b DEF TypeOK
<1>3. Fresh'
  BY <1>a, <1>b DEF TypeOK, Fresh, Translated, NoHandles, InHand
<1>4. Named'
  BY <1>a, <1>b DEF TypeOK, Fresh, Named, Translated
<1>5. Faithful'
  BY SMTT(60), <1>a, <1>b DEF TypeOK, Fresh, Named, Faithful, Translated, NoHandles
<1>6. InHand'
  BY SMTT(60), <1>a, <1>b DEF TypeOK, Fresh, Named, Faithful, InHand, Translated, NoHandles
<1>7. Running'
  BY <1>a, <1>b DEF TypeOK, Running, Active
<1>8. HandleReachable'
  BY <1>a, <1>b DEF TypeOK, Fresh, Named, Faithful, InHand, Running, HandleReachable, Reachable, Translated, NoHandles, Rotating, Active
<1>9. PipesUsable'
  BY <1>a, <1>b DEF TypeOK, Fresh, Named, Faithful, InHand, Running, HandleReachable, Reachable, PipesUsable, PipeFound, pipe_fd_stale, Translated, NoHandles, Rotating, Active
<1> QED
  BY <1>1, <1>2, <1>3, <1>4, <1>5, <1>6, <1>7, <1>8, <1>9

LEMMA GiveBackKeeps ==
    ASSUME IInv, NEW b \in Branches, taken[b] # Idle, GiveBack(b)
    PROVE  IInv'
<1> USE KindAssumption DEF IInv, GiveBack, Awaits, history, table, Ready, Room, Pending, Idle, None, Fds, Branches, Children
<1>a. next \in Fds /\ next + 1 \in 1 .. MaxFds + 1 /\ taken[b].name \in Fds /\ taken[b].handle \in Fds
  BY DEF TypeOK
<1>b. \A c \in Branches, s \in Fds :
         reg'[c][s] = IF c = b /\ s = next THEN taken[b].handle ELSE reg[c][s]
  BY <1>a DEF TypeOK
<1>c. \A c \in Branches : taken'[c] = IF c = b THEN Idle ELSE taken[c]
  BY <1>a DEF TypeOK
<1>d. \A s \in Fds : current'[s] \in {current[s], next} /\ (s # taken[b].name => current'[s] = current[s])
  BY <1>a DEF TypeOK
<1>n. None < next' /\ next < next' /\ \A x \in Fds \cup {None} : x < next => x < next'
  BY <1>a DEF TypeOK
<1>f. IInv
  OBVIOUS
<1>g. /\ UNCHANGED <<pipes, phase, kind, handle, seen, closed, strayed>>
      /\ taken[b].handle = handle[taken[b].name] /\ handle[taken[b].name] # None
      /\ taken[b].name \notin closed => current[taken[b].name] # None
      /\ \A c \in Branches, s \in Fds : reg[c][s] # taken[b].handle
      /\ \A c \in Branches : taken[c].handle = taken[b].handle => c = b
  BY <1>a DEF InHand
<1>h. /\ current[taken[b].name] # None => current'[taken[b].name] = next
      /\ \A s \in Fds : current[s] # next
  <2>1. current[taken[b].name] # None => current'[taken[b].name] = next
    BY <1>a DEF TypeOK
  <2>2. \A s \in Fds : current[s] # next
    BY <1>a, <1>f, Facts
  <2> QED
    BY <2>1, <2>2
<1>1. TypeOK'
  <2>1. next' \in 1 .. MaxFds + 1
    BY <1>a, <1>b, <1>c, <1>d DEF TypeOK
  <2>2. reg' \in [Branches -> [Fds -> Fds \cup {None}]]
    BY <1>a, <1>b, <1>c, <1>d DEF TypeOK, NoHandles
  <2>3. current' \in [Fds -> Fds \cup {None}]
    BY <1>a, <1>b, <1>c, <1>d DEF TypeOK
  <2>4. taken' \in [Branches -> [name : Fds, handle : Fds] \cup {Idle}]
    BY <1>a, <1>b, <1>c, <1>d DEF TypeOK
  <2>5. kind' \in [Fds -> AllKinds]
    BY <1>a, <1>b, <1>c, <1>d DEF TypeOK, AllKinds, Rotating
  <2>6. handle' \in [Fds -> Fds \cup {None}]
    BY <1>a, <1>b, <1>c, <1>d DEF TypeOK
  <2> QED
    BY <1>a, <1>b, <1>c, <1>d, <2>1, <2>2, <2>3, <2>4, <2>5, <2>6 DEF TypeOK
<1>2. Room(0)'
  BY <1>a, <1>b, <1>c, <1>d DEF TypeOK
<1>3. Fresh'
  <2>1. \A r \in Fds : r >= next' => current'[r] = None /\ handle'[r] = None
    BY <1>a, <1>b, <1>c, <1>d DEF TypeOK, Fresh, Translated, NoHandles, InHand
  <2>2. \A c \in Branches, r \in Fds : r >= next' => reg'[c][r] = None
    BY <1>a, <1>b, <1>c, <1>d DEF TypeOK, Fresh, Translated, NoHandles, InHand
  <2>3. \A r \in Fds : current'[r] < next' /\ handle'[r] < next'
    BY Bounds, <1>n, <1>a, <1>b, <1>c, <1>d DEF Fresh, TypeOK
  <2>4. \A c \in Branches, r \in Fds : reg'[c][r] < next'
    <3> TAKE c \in Branches, r \in Fds
    <3>1. reg'[c][r] \in {reg[c][r], taken[b].handle}
      BY <1>b
    <3>2. \A x \in {reg[c][r], taken[b].handle} : x \in Fds \cup {None} /\ x < next
      BY <1>a, Bounds DEF Fresh
    <3> QED
      BY <3>1, <3>2, <1>n
  <2>5. \A c \in Branches : taken'[c].name < next' /\ taken'[c].handle < next'
    BY <1>a DEF TypeOK, Fresh
  <2> QED
    BY <2>1, <2>2, <2>3, <2>4, <2>5 DEF Fresh
<1>4. Named'
  <2> HIDE KindAssumption DEF IInv, GiveBack, Awaits, history, table, Ready, Room, Pending, Idle, Fds, Branches, Children
  <2>1. \A k \in Fds : current'[k] \notin {None, k} => handle[current'[k]] = None
    <3> TAKE k \in Fds
    <3>1. CASE current'[k] = next
      BY <3>1, <1>a, <1>f, Facts
    <3>2. CASE current'[k] = current[k]
      BY <3>2, <1>f DEF IInv, Named
    <3> QED
      BY <3>1, <3>2, <1>d
  <2>2. \A k, l \in Fds : current'[k] = current'[l] /\ current'[k] # None => k = l
    <3>1. \A k \in Fds : current[k] # next
      BY <1>h
    <3> QED
      BY <3>1, <1>d, <1>f, Facts
  <2> QED
    BY <2>1, <2>2, <1>f, <1>g DEF IInv, Named
<1>5. Faithful'
  <2>1. \A c \in Branches, s \in Fds : current'[s] # None => reg'[c][current'[s]] \in {None, handle'[s]}
    <3> HIDE KindAssumption DEF IInv, GiveBack, Awaits, history, table, Ready, Room, Pending, Idle, Fds, Branches, Children
    <3> TAKE c \in Branches, s \in Fds
    <3>1. CASE s = taken[b].name /\ current'[s] = next
      <4>1. reg'[c][next] \in {None, taken[b].handle}
        BY <1>a, <1>b, <1>f, Facts
      <4> QED
        BY <3>1, <4>1, <1>g
    <3>2. CASE current'[s] = current[s]
      <4>1. current[s] # None => current[s] \in Fds /\ current[s] # next
        BY <1>h, <1>f, Facts
      <4>2. current[s] # None => reg'[c][current[s]] = reg[c][current[s]]
        BY <4>1, <1>b
      <4> QED
        BY <3>2, <4>2, <1>f, <1>g, Facts
    <3> QED
      BY <3>1, <3>2, <1>d
  <2>2. \A c \in Branches, s \in Fds : handle'[s] # None => reg'[c][s] \in {None, handle'[s]}
    BY <1>a, <1>b, <1>c, <1>d DEF TypeOK, Fresh, Named, Faithful, Translated, NoHandles
  <2> QED
    BY <2>1, <2>2 DEF Faithful
<1>6. InHand'
  <2> HIDE KindAssumption DEF IInv, GiveBack, Awaits, history, table, Ready, Room, Pending, Idle, Fds, Branches, Children
  <2>1. InHand
    BY <1>f DEF IInv
  <2>2. \A c \in Branches : taken'[c] # Idle => c # b /\ taken'[c] = taken[c]
    BY <1>c
  <2>3. ASSUME NEW c \in Branches, taken'[c] # Idle
        PROVE  /\ taken[c].handle = handle[taken[c].name]
               /\ taken[c].name \notin closed => current'[taken[c].name] # None
               /\ \A e \in Branches, r \in Fds : reg'[e][r] # taken[c].handle
    <3>1. c # b /\ taken[c] # Idle /\ taken[c].name \in Fds
      BY <2>2, <2>3, <1>f, Facts
    <3>2. taken[c].handle # taken[b].handle /\ taken[c].handle = handle[taken[c].name]
      BY <3>1, <2>1, <1>g DEF InHand
    <3>3. taken[c].name # taken[b].name
      BY <3>2, <1>g
    <3> QED
      BY <3>1, <3>2, <3>3, <2>1, <1>b, <1>d DEF InHand
  <2>4. ASSUME NEW c \in Branches, NEW e \in Branches, taken'[c] # Idle, taken'[c].handle = taken'[e].handle
        PROVE  c = e
    <3>1. taken[c] # Idle /\ taken'[c] = taken[c] /\ taken[c].handle # None
      BY <2>2, <2>4, <1>f, Facts DEF Fds, None
    <3>2. taken'[e] # Idle
      BY <3>1, <2>4 DEF Idle
    <3> QED
      BY <3>1, <3>2, <2>1, <2>2, <2>4 DEF InHand
  <2> QED
    BY <2>2, <2>3, <2>4, <1>g DEF InHand
<1>7. Running'
  BY <1>a, <1>b, <1>c, <1>d DEF TypeOK, Running, Active
<1>8. HandleReachable'
  <2> HIDE KindAssumption DEF IInv, GiveBack, Awaits, history, table, Ready, Room, Pending, Idle, Fds, Branches, Children
  <2> SUFFICES ASSUME NEW c \in Branches, NEW k \in seen[c] \ (closed \cup strayed),
                      kind[handle[k]] \in Rotating
               PROVE  \/ taken'[c] = [name |-> k, handle |-> handle[k]]
                      \/ current'[k] # None /\ reg'[c][current'[k]] = handle[k]
    BY <1>g DEF HandleReachable, Reachable
  <2>1. k \in Fds /\ Reachable(c, k)
    BY <1>f, Facts DEF IInv, HandleReachable
  <2>2. CASE c = b /\ taken[b] = [name |-> k, handle |-> handle[k]]
    <3>1. taken[b].name = k /\ taken[b].handle = handle[k]
      BY <2>2
    <3>2. current'[k] = next
      BY <3>1, <1>g, <1>h
    <3>3. reg'[b][next] = handle[k] /\ next # None
      BY <3>1, <1>a, <1>b DEF Fds, None
    <3> QED
      BY <2>2, <3>2, <3>3
  <2>3. CASE c # b /\ taken[c] = [name |-> k, handle |-> handle[k]]
    BY <2>3, <1>c
  <2>4. CASE current[k] # None /\ reg[c][current[k]] = handle[k]
    <3>1. current[k] \in Fds /\ current[k] # next
      BY <2>1, <2>4, <1>h, <1>f, Facts
    <3>2. k # taken[b].name
      BY <3>1, <2>4, <1>g
    <3> QED
      BY <2>1, <2>4, <3>1, <3>2, <1>b, <1>d
  <2> QED
    BY <2>1, <2>2, <2>3, <2>4 DEF Reachable
<1>9. PipesUsable'
  BY SMTT(60), <1>a, <1>b, <1>c, <1>d DEF TypeOK, Fresh, Named, Faithful, InHand, Running, HandleReachable, Reachable, PipesUsable, PipeFound, pipe_fd_stale, Translated, NoHandles, Rotating, Active
<1> QED
  BY <1>1, <1>2, <1>3, <1>4, <1>5, <1>6, <1>7, <1>8, <1>9

LEMMA ReapedKeeps ==
    ASSUME IInv, NEW b \in Branches, Reaped(b)
    PROVE  IInv'
<1> USE KindAssumption DEF IInv, Reaped, Awaits, history, table, Ready, Room, Pending, Idle, None, Fds, Branches, Children
<1>a. taken[b].name \in Fds
  BY DEF TypeOK
<1>c. \A c \in Branches : taken'[c] = IF c = b THEN Idle ELSE taken[c]
  BY <1>a DEF TypeOK
<1>1. TypeOK'
  <2>1. next' \in 1 .. MaxFds + 1
    BY <1>a, <1>c DEF TypeOK
  <2>2. reg' \in [Branches -> [Fds -> Fds \cup {None}]]
    BY <1>a, <1>c DEF TypeOK, NoHandles
  <2>3. current' \in [Fds -> Fds \cup {None}]
    BY <1>a, <1>c DEF TypeOK
  <2>4. taken' \in [Branches -> [name : Fds, handle : Fds] \cup {Idle}]
    BY <1>a, <1>c DEF TypeOK
  <2>5. kind' \in [Fds -> AllKinds]
    BY <1>a, <1>c DEF TypeOK, AllKinds, Rotating
  <2>6. handle' \in [Fds -> Fds \cup {None}]
    BY <1>a, <1>c DEF TypeOK
  <2> QED
    BY <1>a, <1>c, <2>1, <2>2, <2>3, <2>4, <2>5, <2>6 DEF TypeOK
<1>2. Room(0)'
  BY <1>a, <1>c DEF TypeOK
<1>3. Fresh'
  BY <1>a, <1>c DEF TypeOK, Fresh, Translated, NoHandles, InHand
<1>4. Named'
  BY <1>a, <1>c DEF TypeOK, Fresh, Named, Translated
<1>5. Faithful'
  BY SMTT(60), <1>a, <1>c DEF TypeOK, Fresh, Named, Faithful, Translated, NoHandles
<1>6. InHand'
  BY SMTT(60), <1>a, <1>c DEF TypeOK, Fresh, Named, Faithful, InHand, Translated, NoHandles
<1>7. Running'
  BY <1>a, <1>c DEF TypeOK, Running, Active
<1>8. HandleReachable'
  BY <1>a, <1>c DEF TypeOK, Fresh, Named, Faithful, InHand, Running, HandleReachable, Reachable, Translated, NoHandles, Rotating, Active
<1>9. PipesUsable'
  BY <1>a, <1>c DEF TypeOK, Fresh, Named, Faithful, InHand, Running, HandleReachable, Reachable, PipesUsable, PipeFound, pipe_fd_stale, Translated, NoHandles, Rotating, Active
<1> QED
  BY <1>1, <1>2, <1>3, <1>4, <1>5, <1>6, <1>7, <1>8, <1>9

LEMMA WaitDroppedKeeps ==
    ASSUME IInv, NEW b \in Branches, WaitDropped(b)
    PROVE  IInv'
<1> USE KindAssumption DEF IInv, WaitDropped, Awaits, history, table, Ready, Room, Pending, Idle, None, Fds, Branches, Children
<1>a. taken[b].name \in Fds
  BY DEF TypeOK
<1>c. \A c \in Branches : taken'[c] = IF c = b THEN Idle ELSE taken[c]
  BY <1>a DEF TypeOK
<1>1. TypeOK'
  <2>1. next' \in 1 .. MaxFds + 1
    BY <1>a, <1>c DEF TypeOK
  <2>2. reg' \in [Branches -> [Fds -> Fds \cup {None}]]
    BY <1>a, <1>c DEF TypeOK, NoHandles
  <2>3. current' \in [Fds -> Fds \cup {None}]
    BY <1>a, <1>c DEF TypeOK
  <2>4. taken' \in [Branches -> [name : Fds, handle : Fds] \cup {Idle}]
    BY <1>a, <1>c DEF TypeOK
  <2>5. kind' \in [Fds -> AllKinds]
    BY <1>a, <1>c DEF TypeOK, AllKinds, Rotating
  <2>6. handle' \in [Fds -> Fds \cup {None}]
    BY <1>a, <1>c DEF TypeOK
  <2> QED
    BY <1>a, <1>c, <2>1, <2>2, <2>3, <2>4, <2>5, <2>6 DEF TypeOK
<1>2. Room(0)'
  BY <1>a, <1>c DEF TypeOK
<1>3. Fresh'
  BY <1>a, <1>c DEF TypeOK, Fresh, Translated, NoHandles, InHand
<1>4. Named'
  BY <1>a, <1>c DEF TypeOK, Fresh, Named, Translated
<1>5. Faithful'
  BY <1>a, <1>c DEF TypeOK, Fresh, Named, Faithful, Translated, NoHandles
<1>6. InHand'
  BY <1>a, <1>c DEF TypeOK, Fresh, Named, Faithful, InHand, Translated, NoHandles
<1>7. Running'
  BY <1>a, <1>c DEF TypeOK, Running, Active
<1>8. HandleReachable'
  BY <1>a, <1>c DEF TypeOK, Fresh, Named, Faithful, InHand, Running, HandleReachable, Reachable, Translated, NoHandles, Rotating, Active
<1>9. PipesUsable'
  BY <1>a, <1>c DEF TypeOK, Fresh, Named, Faithful, InHand, Running, HandleReachable, Reachable, PipesUsable, PipeFound, pipe_fd_stale, Translated, NoHandles, Rotating, Active
<1> QED
  BY <1>1, <1>2, <1>3, <1>4, <1>5, <1>6, <1>7, <1>8, <1>9

LEMMA DupKeeps ==
    ASSUME IInv, NEW b \in Branches, NEW n \in Fds, Dup(b, n)
    PROVE  IInv'
<1> USE KindAssumption DEF IInv, Dup, Live, CopyStrays, history, table, Ready, Room, Pending, Idle, None, Fds, Branches, Children
<1>a. next \in Fds /\ next + 1 \in 1 .. MaxFds + 1 /\ Translated(n) \in Fds /\ reg[b][Translated(n)] \in Fds
  BY DEF TypeOK, Translated
<1>b. \A c \in Branches, s \in Fds :
         reg'[c][s] = IF c = b /\ s = next THEN reg[b][Translated(n)] ELSE reg[c][s]
  BY <1>a DEF TypeOK
<1>c. \A s \in Fds : current'[s] = IF s = next /\ current[n] # None THEN next ELSE current[s]
  BY <1>a DEF TypeOK
<1>n. None < next' /\ next < next' /\ \A x \in Fds \cup {None} : x < next => x < next'
  BY <1>a DEF TypeOK
<1>f. IInv
  OBVIOUS
<1>d. /\ \A s \in Fds : handle'[s] = IF s = next THEN handle[n] ELSE handle[s]
      /\ \A c \in Branches : seen'[c] = IF c = b THEN seen[c] \cup {next} ELSE seen[c]
      /\ pipes' = (IF n \in pipes THEN pipes \cup {next} ELSE pipes)
      /\ strayed' = strayed \cup CopyStrays(n)
      /\ UNCHANGED <<taken, phase, kind, closed>>
  BY <1>a DEF TypeOK, Translated, Named, Faithful
<1>g. /\ reg[b][Translated(n)] = handle[n] /\ Translated(n) # next
      /\ handle[n] # None /\ taken[b] = Idle /\ next # None /\ n \in seen[b]
  <2>1. reg[b][Translated(n)] = handle[n] /\ handle[n] # None /\ taken[b] = Idle /\ next # None
    BY <1>a DEF Translated, Named, Faithful
  <2>2. Translated(n) # next
    BY <1>a, <1>f, Facts
  <2> QED
    BY <2>1, <2>2, <1>a, <1>f, Facts
<1>h. /\ \A c \in Branches, s \in Fds : reg[c][next] = None /\ current[s] # next
      /\ \A c \in Branches : next \notin seen[c]
  BY <1>a, <1>f, Facts
<1>1. TypeOK'
  <2>1. next' \in 1 .. MaxFds + 1
    BY <1>a, <1>b, <1>c DEF TypeOK
  <2>2. reg' \in [Branches -> [Fds -> Fds \cup {None}]]
    BY <1>a, <1>b, <1>c DEF TypeOK, NoHandles
  <2>3. current' \in [Fds -> Fds \cup {None}]
    BY <1>a, <1>b, <1>c DEF TypeOK
  <2>4. taken' \in [Branches -> [name : Fds, handle : Fds] \cup {Idle}]
    BY <1>a, <1>b, <1>c DEF TypeOK
  <2>5. kind' \in [Fds -> AllKinds]
    BY <1>a, <1>b, <1>c DEF TypeOK, AllKinds, Rotating
  <2>6. handle' \in [Fds -> Fds \cup {None}]
    BY <1>a, <1>b, <1>c DEF TypeOK
  <2>7. pipes' \in SUBSET Fds
    BY <1>a DEF TypeOK
  <2>8. seen' \in [Branches -> SUBSET Fds]
    BY <1>a DEF TypeOK
  <2>9. closed' \in SUBSET Fds /\ strayed' \in SUBSET Fds
    BY <1>a DEF TypeOK
  <2> QED
    BY <1>a, <1>b, <1>c, <2>1, <2>2, <2>3, <2>4, <2>5, <2>6, <2>7, <2>8, <2>9 DEF TypeOK
<1>2. Room(0)'
  BY <1>a, <1>b, <1>c DEF TypeOK
<1>3. Fresh'
  <2>1. \A r \in Fds : r >= next' => current'[r] = None /\ handle'[r] = None
    BY <1>a, <1>b, <1>c DEF TypeOK, Fresh, Translated, NoHandles, InHand
  <2>2. \A c \in Branches, r \in Fds : r >= next' => reg'[c][r] = None
    BY <1>a, <1>b, <1>c DEF TypeOK, Fresh, Translated, NoHandles, InHand
  <2>3. \A r \in Fds : current'[r] < next' /\ handle'[r] < next'
    BY Bounds, <1>n, <1>a, <1>b, <1>c DEF TypeOK
  <2>4. \A c \in Branches, r \in Fds : reg'[c][r] < next'
    BY Bounds, <1>n, <1>a, <1>b, <1>c
  <2>5. \A c \in Branches : taken'[c].name < next' /\ taken'[c].handle < next'
    BY <1>a, <1>b, <1>c DEF TypeOK, Fresh, Translated, NoHandles, InHand
  <2> QED
    BY <2>1, <2>2, <2>3, <2>4, <2>5 DEF Fresh
<1>4. Named'
  BY SMTT(60), <1>a, <1>b, <1>c DEF TypeOK, Fresh, Named, Translated
<1>5. Faithful'
  BY SMTT(60), <1>a, <1>b, <1>c DEF TypeOK, Fresh, Named, Faithful, Translated, NoHandles
<1>6. InHand'
  <2> HIDE KindAssumption DEF IInv, Dup, Live, CopyStrays, history, table, Ready, Room, Pending, Idle, Fds, Branches, Children
  <2>1. InHand
    BY <1>f DEF IInv
  <2>2. ASSUME NEW c \in Branches, taken[c] # Idle
        PROVE  /\ taken[c].handle = handle'[taken[c].name]
               /\ taken[c].name \notin closed => current'[taken[c].name] # None
               /\ \A e \in Branches, r \in Fds : reg'[e][r] # taken[c].handle
    <3>1. taken[c].name \in Fds /\ taken[c].handle \in Fds /\ taken[c].handle = handle[taken[c].name]
      BY <2>2, <1>f, Facts
    <3>2. taken[c].name # next
      BY <3>1, <1>a, <1>f, Facts DEF Fds, None
    <3> QED
      BY <2>2, <3>1, <3>2, <2>1, <1>a, <1>b, <1>c, <1>d, <1>g DEF InHand
  <2> QED
    BY <2>1, <2>2, <1>d DEF InHand
<1>7. Running'
  BY <1>a, <1>b, <1>c DEF TypeOK, Running, Active
<1>8. HandleReachable'
  <2> HIDE KindAssumption DEF IInv, Dup, Live, CopyStrays, history, table, Ready, Room, Pending, Idle, Fds, Branches, Children
  <2> SUFFICES ASSUME NEW c \in Branches, NEW k \in seen'[c], k \notin closed \cup strayed',
                      kind[handle'[k]] \in Rotating
               PROVE  \/ taken[c] = [name |-> k, handle |-> handle'[k]]
                      \/ current'[k] # None /\ reg'[c][current'[k]] = handle'[k]
    BY <1>d DEF HandleReachable, Reachable
  <2>1. CASE c = b /\ k = next
    <3>1. n \notin closed \cup strayed
      BY <2>1, <1>d DEF CopyStrays
    <3>2. kind[handle[n]] \in Rotating
      BY <2>1, <1>a, <1>d
    <3>3. Reachable(b, n)
      BY <3>1, <3>2, <1>f, <1>g DEF IInv, HandleReachable
    <3>4. current[n] # None
      BY <3>3, <1>g DEF Reachable, Idle
    <3> QED
      BY <2>1, <3>4, <1>a, <1>b, <1>c, <1>d, <1>g
  <2>2. CASE ~(c = b /\ k = next)
    <3>1. k \in seen[c] \ (closed \cup strayed) /\ k \in Fds /\ k # next
      <4>1. k \in seen[c] /\ k # next
        BY <2>2, <1>d, <1>h
      <4>2. k \in Fds
        BY <4>1, <1>f, Facts
      <4> QED
        BY <4>1, <4>2, <1>d
    <3>2. handle'[k] = handle[k] /\ Reachable(c, k)
      BY <3>1, <1>d, <1>f DEF IInv, HandleReachable
    <3>3. CASE taken[c] = [name |-> k, handle |-> handle[k]]
      BY <3>2, <3>3
    <3>4. CASE current[k] # None /\ reg[c][current[k]] = handle[k]
      <4>1. current[k] \in Fds
        BY <3>1, <3>4, <1>f, Facts
      <4> QED
        BY <3>1, <3>2, <3>4, <4>1, <1>b, <1>c, <1>h
    <3> QED
      BY <3>2, <3>3, <3>4 DEF Reachable
  <2> QED
    BY <2>1, <2>2
<1>9. PipesUsable'
  <2> HIDE KindAssumption DEF IInv, Dup, Live, CopyStrays, history, table, Ready, Room, Pending, Idle, Fds, Branches, Children
  <2> SUFFICES ASSUME NEW c \in Branches, NEW k \in seen'[c], k \notin closed \cup strayed',
                      kind[handle'[k]] = "pipe"
               PROVE  k \in pipes' /\ reg'[c][k] # None
    BY <1>d DEF PipesUsable, PipeFound, pipe_fd_stale
  <2>1. CASE c = b /\ k = next
    <3>1. n \notin closed \cup strayed
      BY <2>1, <1>d DEF CopyStrays
    <3>2. n \in pipes
      BY <2>1, <3>1, <1>a, <1>d, <1>f, <1>g DEF IInv, PipesUsable, PipeFound
    <3> QED
      BY <2>1, <3>2, <1>a, <1>b, <1>d, <1>g
  <2>2. CASE ~(c = b /\ k = next)
    <3>1. k \in seen[c] \ (closed \cup strayed) /\ k \in Fds /\ k # next
      <4>1. k \in seen[c] /\ k # next
        BY <2>2, <1>d, <1>h
      <4>2. k \in Fds
        BY <4>1, <1>f, Facts
      <4> QED
        BY <4>1, <4>2, <1>d
    <3>2. k \in pipes /\ reg[c][k] # None
      BY <3>1, <2>2, <1>d, <1>f DEF IInv, PipesUsable, PipeFound, pipe_fd_stale
    <3> QED
      BY <3>1, <3>2, <1>b, <1>d
  <2> QED
    BY <2>1, <2>2
<1> QED
  BY <1>1, <1>2, <1>3, <1>4, <1>5, <1>6, <1>7, <1>8, <1>9

LEMMA CloseKeeps ==
    ASSUME IInv, NEW b \in Branches, NEW n \in Fds, Close(b, n)
    PROVE  IInv'
<1> USE KindAssumption DEF IInv, Close, Live, Strays, history, table, Ready, Room, Pending, Idle, None, Fds, Branches, Children
<1>a. Translated(n) \in Fds
  BY DEF TypeOK, Translated
<1>1. TypeOK'
  <2>1. next' \in 1 .. MaxFds + 1
    BY <1>a DEF TypeOK
  <2>2. reg' \in [Branches -> [Fds -> Fds \cup {None}]]
    BY <1>a DEF TypeOK, NoHandles
  <2>3. current' \in [Fds -> Fds \cup {None}]
    BY <1>a DEF TypeOK
  <2>4. taken' \in [Branches -> [name : Fds, handle : Fds] \cup {Idle}]
    BY <1>a DEF TypeOK
  <2>5. kind' \in [Fds -> AllKinds]
    BY <1>a DEF TypeOK, AllKinds, Rotating
  <2>6. handle' \in [Fds -> Fds \cup {None}]
    BY <1>a DEF TypeOK
  <2> QED
    BY <1>a, <2>1, <2>2, <2>3, <2>4, <2>5, <2>6 DEF TypeOK
<1>2. Room(0)'
  BY <1>a DEF TypeOK
<1>3. Fresh'
  BY <1>a DEF TypeOK, Fresh, Translated, NoHandles, InHand
<1>4. Named'
  BY <1>a DEF TypeOK, Fresh, Named, Translated
<1>5. Faithful'
  BY SMTT(60), <1>a DEF TypeOK, Fresh, Named, Faithful, Translated, NoHandles
<1>6. InHand'
  <2>1. \A c \in Branches : taken'[c] # Idle => taken'[c].handle = handle'[taken'[c].name]
    BY <1>a DEF TypeOK, Fresh, Named, Faithful, InHand, Translated, NoHandles
  <2>2. \A c \in Branches : taken'[c] # Idle /\ taken'[c].name \notin closed' => current'[taken'[c].name] # None
    BY <1>a DEF TypeOK, Fresh, Named, Faithful, InHand, Translated, NoHandles
  <2>3. \A c, e \in Branches, r \in Fds : taken'[c] # Idle => reg'[e][r] # taken'[c].handle
    BY <1>a DEF TypeOK, Fresh, Named, Faithful, InHand, Translated, NoHandles
  <2>4. \A c, e \in Branches : taken'[c] # Idle /\ taken'[c].handle = taken'[e].handle => c = e
    BY <1>a DEF TypeOK, Fresh, Named, Faithful, InHand, Translated, NoHandles
  <2> QED
    BY <2>1, <2>2, <2>3, <2>4 DEF InHand
<1>7. Running'
  BY <1>a DEF TypeOK, Running, Active
<1>8. HandleReachable'
  BY SMTT(60), <1>a DEF TypeOK, Fresh, Named, Faithful, InHand, Running, HandleReachable, Reachable, Translated, NoHandles, Rotating, Active
<1>9. PipesUsable'
  BY <1>a DEF TypeOK, Fresh, Named, Faithful, InHand, Running, HandleReachable, Reachable, PipesUsable, PipeFound, pipe_fd_stale, Translated, NoHandles, Rotating, Active
<1> QED
  BY <1>1, <1>2, <1>3, <1>4, <1>5, <1>6, <1>7, <1>8, <1>9

LEMMA Dup2Keeps ==
    ASSUME IInv, NEW b \in Branches, NEW n \in Fds, NEW m \in Fds, Dup2(b, n, m)
    PROVE  IInv'
<1> USE KindAssumption DEF IInv, Dup2, Live, Strays, CopyStrays, history, table, Ready, Room, Pending, Idle, None, Fds, Branches, Children
<1>a. /\ next \in Fds /\ next + 1 \in 1 .. MaxFds + 1 /\ Translated(n) \in Fds /\ Translated(m) \in Fds
      /\ reg[b][Translated(n)] \in Fds
  BY DEF TypeOK, Translated
<1>b. \A c \in Branches, s \in Fds :
         reg'[c][s] = IF c = b /\ s = next THEN reg[b][Translated(n)]
                      ELSE IF c = b /\ s = Translated(m) THEN None ELSE reg[c][s]
  BY <1>a DEF TypeOK
<1>c. \A s \in Fds : current'[s] = IF s = next THEN (IF current[n] # None THEN next ELSE None)
                                   ELSE IF s = m THEN None ELSE current[s]
  BY <1>a DEF TypeOK
<1>d. \A s \in Fds : handle'[s] = IF s = next THEN reg[b][Translated(n)] ELSE handle[s]
  BY <1>a DEF TypeOK
<1>n. None < next' /\ next < next' /\ \A x \in Fds \cup {None} : x < next => x < next'
  BY <1>a DEF TypeOK
<1>f. IInv
  OBVIOUS
<1>g. /\ reg[b][Translated(n)] = handle[n] /\ handle[n] # None
      /\ reg[b][Translated(m)] = handle[m] /\ handle[m] # None
      /\ UNCHANGED <<taken, phase, kind>> /\ closed' = closed \cup {m}
      /\ \A c \in Branches : seen'[c] = IF c = b THEN seen[c] \cup {next} ELSE seen[c]
  <2>1. UNCHANGED <<taken, phase, kind>> /\ closed' = closed \cup {m}
    OBVIOUS
  <2>2. \A c \in Branches : seen'[c] = IF c = b THEN seen[c] \cup {next} ELSE seen[c]
    BY DEF TypeOK
  <2>3. \A k \in {n, m} : k \in Fds /\ k \in seen[b] /\ reg[b][Translated(k)] # None
    OBVIOUS
  <2>4. \A k \in {n, m} : reg[b][Translated(k)] = handle[k] /\ handle[k] # None
    <3> HIDE KindAssumption DEF Dup2, Live, Strays, CopyStrays, history, table, Ready, Room, Pending, Idle, Fds, Branches, Children
    <3> TAKE k \in {n, m}
    <3>1. handle[k] # None
      BY <2>3 DEF Named
    <3> QED
      BY <2>3, <3>1 DEF Translated, Faithful
  <2> QED
    BY <2>1, <2>2, <2>4
<1>h. /\ \A c \in Branches, s \in Fds : reg[c][next] = None /\ current[s] # next /\ handle[next] = None
      /\ \A c \in Branches : next \notin seen[c]
      /\ next # None
  BY <1>a, <1>f, Facts
<1>i. next \in Nat /\ next' = next + 1 /\ Fds \subseteq Nat
  BY <1>a
<1>1. TypeOK'
  <2>1. next' \in 1 .. MaxFds + 1
    BY Bounds, <1>a, <1>b, <1>c, <1>d DEF TypeOK
  <2>2. reg' \in [Branches -> [Fds -> Fds \cup {None}]]
    BY Bounds, <1>a, <1>b, <1>c, <1>d DEF TypeOK, NoHandles
  <2>3. current' \in [Fds -> Fds \cup {None}]
    BY Bounds, <1>a, <1>b, <1>c, <1>d DEF TypeOK
  <2>4. taken' \in [Branches -> [name : Fds, handle : Fds] \cup {Idle}]
    BY Bounds, <1>a, <1>b, <1>c, <1>d DEF TypeOK
  <2>5. kind' \in [Fds -> AllKinds]
    BY Bounds, <1>a, <1>b, <1>c, <1>d DEF TypeOK, AllKinds, Rotating
  <2>6. handle' \in [Fds -> Fds \cup {None}]
    BY Bounds, <1>a, <1>b, <1>c, <1>d DEF TypeOK
  <2>7. pipes' \in SUBSET Fds
    BY <1>a DEF TypeOK
  <2>8. seen' \in [Branches -> SUBSET Fds]
    BY <1>a DEF TypeOK
  <2>9. closed' \in SUBSET Fds /\ strayed' \in SUBSET Fds
    BY <1>a DEF TypeOK
  <2> QED
    BY <1>a, <1>b, <1>c, <2>1, <2>2, <2>3, <2>4, <2>5, <2>6, <2>7, <2>8, <2>9 DEF TypeOK
<1>2. Room(0)'
  BY Bounds, <1>a, <1>b, <1>c, <1>d DEF TypeOK
<1>3. Fresh'
  <2>1. \A r \in Fds : r >= next' => current'[r] = None /\ handle'[r] = None
    <3> HIDE KindAssumption DEF IInv, Dup2, Live, Strays, CopyStrays, history, table, Ready, Room, Pending, Idle, Fds, Branches, Children
    <3> TAKE r \in Fds
    <3> HAVE r >= next'
    <3>1. r # next /\ r >= next
      BY <1>i
    <3> QED
      BY <3>1, <1>a, <1>c, <1>d, <1>f, Facts
  <2>2. \A c \in Branches, r \in Fds : r >= next' => reg'[c][r] = None
    <3> HIDE KindAssumption DEF IInv, Dup2, Live, Strays, CopyStrays, history, table, Ready, Room, Pending, Idle, Fds, Branches, Children
    <3> TAKE c \in Branches, r \in Fds
    <3> HAVE r >= next'
    <3>1. r # next /\ r >= next
      BY <1>i
    <3> QED
      BY <3>1, <1>a, <1>b, <1>f, Facts
  <2>3. \A r \in Fds : current'[r] < next' /\ handle'[r] < next'
    <3> TAKE r \in Fds
    <3>1. current'[r] \in {current[r], next, None} /\ handle'[r] \in {handle[r], reg[b][Translated(n)]}
      BY <1>c, <1>d
    <3>2. \A x \in {current[r], handle[r], reg[b][Translated(n)]} : x \in Fds \cup {None} /\ x < next
      BY <1>a, Bounds
    <3> QED
      BY <3>1, <3>2, <1>n
  <2>4. \A c \in Branches, r \in Fds : reg'[c][r] < next'
    <3> TAKE c \in Branches, r \in Fds
    <3>1. reg'[c][r] \in {reg[c][r], reg[b][Translated(n)], None}
      BY <1>b
    <3>2. \A x \in {reg[c][r], reg[b][Translated(n)], None} : x \in Fds \cup {None} /\ (x < next \/ x = None)
      BY <1>a, Bounds
    <3> QED
      BY <3>1, <3>2, <1>n
  <2>5. \A c \in Branches : taken'[c].name < next' /\ taken'[c].handle < next'
    BY SMTT(60), <1>a DEF TypeOK, Fresh
  <2> QED
    BY <2>1, <2>2, <2>3, <2>4, <2>5 DEF Fresh
<1>4. Named'
  <2>1. \A c \in Branches : \A k \in seen'[c] : handle'[k] # None
    <3> HIDE KindAssumption DEF IInv, Dup2, Live, Strays, CopyStrays, history, table, Ready, Room, Pending, Idle, Fds, Branches, Children
    <3> TAKE c \in Branches
    <3> TAKE k \in seen'[c]
    <3>1. CASE k = next
      BY <3>1, <1>a, <1>d, <1>g
    <3>2. CASE k # next
      <4>1. k \in seen[c]
        BY <3>2, <1>g
      <4>2. k \in Fds /\ handle[k] # None
        BY <4>1, <1>f, Facts
      <4> QED
        BY <3>2, <4>2, <1>d
    <3> QED
      BY <3>1, <3>2
  <2>2. \A k \in Fds : current'[k] \notin {None, k} => handle'[current'[k]] = None
    <3> HIDE KindAssumption DEF IInv, Dup2, Live, Strays, CopyStrays, history, table, Ready, Room, Pending, Idle, Fds, Branches, Children
    <3> TAKE k \in Fds
    <3> HAVE current'[k] \notin {None, k}
    <3>1. current'[k] = current[k] /\ k # next /\ current[k] \in Fds /\ current[k] # next
      BY <1>c, <1>h, <1>f, Facts
    <3> QED
      BY <3>1, <1>d, <1>f DEF IInv, Named
  <2>3. \A k, l \in Fds : current'[k] = current'[l] /\ current'[k] # None => k = l
    <3> HIDE KindAssumption DEF IInv, Dup2, Live, Strays, CopyStrays, history, table, Ready, Room, Pending, Idle, Fds, Branches, Children
    <3> QED
      BY <1>c, <1>h, <1>f, Facts
  <2> QED
    BY <2>1, <2>2, <2>3 DEF Named
<1>5. Faithful'
  <2>1. \A c \in Branches, s \in Fds : current'[s] # None => reg'[c][current'[s]] \in {None, handle'[s]}
    <3> TAKE c \in Branches, s \in Fds
    <3>1. CASE s = next
      <4>1. current'[s] \in {None, next} /\ handle'[s] = reg[b][Translated(n)]
        BY <3>1, <1>a, <1>c, <1>d
      <4>2. reg'[c][next] \in {None, reg[b][Translated(n)]}
        BY <1>a, <1>b DEF TypeOK, Fresh
      <4> QED
        BY <4>1, <4>2
    <3>2. CASE s # next /\ s # m
      <4>1. current'[s] = current[s] /\ handle'[s] = handle[s]
        BY <3>2, <1>c, <1>d
      <4>2. current[s] # None => current[s] \in Fds \ {next}
        BY <1>a, Bounds
      <4>3. current[s] # None => reg'[c][current[s]] \in {None, reg[c][current[s]]}
        BY <4>2, <1>b
      <4> QED
        BY <4>1, <4>3 DEF Faithful
    <3> QED
      BY <3>1, <3>2, <1>c
  <2>2. \A c \in Branches, s \in Fds : handle'[s] # None => reg'[c][s] \in {None, handle'[s]}
    <3> HIDE KindAssumption DEF IInv, Dup2, Live, Strays, CopyStrays, history, table, Ready, Room, Pending, Idle, Fds, Branches, Children
    <3> TAKE c \in Branches, s \in Fds
    <3>1. CASE s = next
      BY <3>1, <1>b, <1>d, <1>h
    <3>2. CASE s # next
      BY <3>2, <1>b, <1>d, <1>f DEF IInv, Faithful
    <3> QED
      BY <3>1, <3>2
  <2> QED
    BY <2>1, <2>2 DEF Faithful
<1>6. InHand'
  <2>n. \A c \in Branches : taken[c] # Idle => taken[c].name \in Fds /\ taken[c].name \notin {next, m}
    <3> HIDE KindAssumption DEF IInv, Dup2, Live, Strays, CopyStrays, history, table, Ready, Room, Pending, Idle, Fds, Branches, Children
    <3> TAKE c \in Branches
    <3> HAVE taken[c] # Idle
    <3>1. taken[c].name \in Fds /\ taken[c].handle \in Fds /\ taken[c].handle = handle[taken[c].name]
      BY <1>f, Facts
    <3>2. taken[c].handle # reg[b][Translated(m)]
      BY <1>a, <1>f DEF IInv, InHand
    <3> QED
      BY <3>1, <3>2, <1>g, <1>h DEF Fds, None
  <2>1. \A c \in Branches : taken'[c] # Idle => taken'[c].handle = handle'[taken'[c].name]
    <3> HIDE KindAssumption DEF IInv, Dup2, Live, Strays, CopyStrays, history, table, Ready, Room, Pending, Idle, Fds, Branches, Children
    <3> QED
      BY <2>n, <1>d, <1>g, <1>f, Facts
  <2>2. \A c \in Branches : taken'[c] # Idle /\ taken'[c].name \notin closed' => current'[taken'[c].name] # None
    <3> HIDE KindAssumption DEF IInv, Dup2, Live, Strays, CopyStrays, history, table, Ready, Room, Pending, Idle, Fds, Branches, Children
    <3> QED
      BY <2>n, <1>c, <1>g, <1>f DEF IInv, InHand
  <2>3. \A c, e \in Branches, r \in Fds : taken'[c] # Idle => reg'[e][r] # taken'[c].handle
    <3> TAKE c, e \in Branches, r \in Fds
    <3>1. reg'[e][r] \in {reg[e][r], reg[b][Translated(n)], None}
      BY <1>b
    <3>2. taken[c] # Idle => taken[c].handle # None
      BY DEF TypeOK
    <3> QED
      BY <1>a, <3>1, <3>2 DEF InHand
  <2>4. \A c, e \in Branches : taken'[c] # Idle /\ taken'[c].handle = taken'[e].handle => c = e
    BY Bounds, <1>a, <1>b, <1>c, <1>d DEF TypeOK, Fresh, Named, Faithful, InHand, Translated, NoHandles
  <2> HIDE KindAssumption DEF IInv, Dup2, Live, Strays, CopyStrays, history, table, Ready, Room, Pending, Idle, Fds, Branches, Children
  <2> QED
    BY <2>1, <2>2, <2>3, <2>4 DEF InHand
<1>7. Running'
  BY Bounds, <1>a, <1>b, <1>c, <1>d DEF TypeOK, Running, Active
<1>8. HandleReachable'
  <2> SUFFICES ASSUME NEW c \in Branches, NEW k \in Fds,
                      k \in seen'[c], k \notin closed' \cup strayed', kind'[handle'[k]] \in Rotating
               PROVE  Reachable(c, k)'
    BY <1>1 DEF HandleReachable, TypeOK
  <2>1. CASE k = next
    <3>1. c = b /\ n \notin closed \cup strayed
      BY <2>1, <1>a DEF TypeOK, Fresh, Named
    <3>2. current[n] # None
      <4>1. CASE current[n] = None
        <5>1. reg[b][n] = handle[n]
          BY <1>a, <4>1 DEF Translated, Named, Faithful
        <5>2. kind[handle[n]] \in Rotating
          BY <2>1, <4>1, <5>1, <1>a, <1>d DEF Translated
        <5>3. taken[b] # [name |-> n, handle |-> handle[n]]
          OBVIOUS
        <5> QED
          BY <3>1, <4>1, <5>2, <5>3 DEF HandleReachable, Reachable
      <4> QED
        BY <4>1
    <3>3. current'[next] = next
      BY <3>2, <1>a, <1>c
    <3>4. reg'[b][next] = reg[b][Translated(n)]
      BY <1>a, <1>b
    <3> QED
      BY <2>1, <3>1, <3>3, <3>4, <1>a, <1>d DEF Reachable
  <2>2. CASE k # next
    <3>1. k \in seen[c] /\ k # m /\ k \notin closed \cup strayed
      BY <2>2 DEF TypeOK
    <3>2. current'[k] = current[k] /\ handle'[k] = handle[k] /\ kind'[handle'[k]] = kind[handle[k]]
      BY <2>2, <3>1, <1>c, <1>d
    <3>3. Reachable(c, k)
      BY <3>1, <3>2 DEF HandleReachable
    <3>4. current[k] # None => current[k] \in Fds \ {next, Translated(m)}
      <4>1. m \in Fds /\ handle[m] # None
        BY DEF Named
      <4>2. current[k] # None => current[k] \in Fds \ {next}
        BY <1>a, Bounds
      <4> QED
        BY <3>1, <4>1, <4>2 DEF Translated, Named
    <3>5. current[k] # None => reg'[c][current[k]] = reg[c][current[k]]
      BY <3>4, <1>b
    <3> QED
      BY <3>2, <3>3, <3>5 DEF Reachable
  <2> QED
    BY <2>1, <2>2
<1>9. PipesUsable'
  <2> SUFFICES ASSUME NEW c \in Branches, NEW k \in Fds,
                      k \in seen'[c], k \notin closed' \cup strayed', kind'[handle'[k]] = "pipe"
               PROVE  k \in pipes' /\ reg'[c][k] # None
    BY <1>1 DEF PipesUsable, PipeFound, pipe_fd_stale, TypeOK
  <2>1. CASE k = next
    <3>1. c = b /\ n \notin closed \cup strayed
      BY <2>1, <1>a DEF TypeOK, Fresh, Named
    <3>2. reg[b][Translated(n)] = handle[n]
      BY <1>a DEF Translated, Named, Faithful
    <3>3. n \in pipes
      BY <2>1, <3>1, <3>2, <1>a, <1>d DEF PipesUsable, PipeFound, pipe_fd_stale
    <3> QED
      BY <2>1, <3>1, <3>3, <1>a, <1>b
  <2>2. CASE k # next
    <3>1. k \in seen[c] /\ k # m /\ k \notin closed \cup strayed
      BY <2>2 DEF TypeOK
    <3>2. handle'[k] = handle[k] /\ kind'[handle'[k]] = kind[handle[k]]
      BY <2>2, <3>1, <1>d
    <3>3. k \in pipes /\ reg[c][k] # None
      BY <3>1, <3>2 DEF PipesUsable, PipeFound, pipe_fd_stale
    <3>4. k # Translated(m)
      BY <3>1 DEF Translated, Named
    <3> QED
      BY <2>2, <3>1, <3>3, <3>4, <1>b
  <2> QED
    BY <2>1, <2>2
<1> QED
  BY <1>1, <1>2, <1>3, <1>4, <1>5, <1>6, <1>7, <1>8, <1>9

LEMMA ReplaceKeeps ==
    ASSUME IInv, NEW b \in Branches, Replace(b)
    PROVE  IInv'
<1> USE KindAssumption DEF IInv, Replace, history, table, Ready, Room, Pending, Idle, None, Fds, Branches, Children
<1>1. TypeOK'
  <2>1. next' \in 1 .. MaxFds + 1
    BY DEF TypeOK
  <2>2. reg' \in [Branches -> [Fds -> Fds \cup {None}]]
    BY DEF TypeOK, NoHandles
  <2>3. current' \in [Fds -> Fds \cup {None}]
    BY DEF TypeOK
  <2>4. taken' \in [Branches -> [name : Fds, handle : Fds] \cup {Idle}]
    BY DEF TypeOK
  <2>5. kind' \in [Fds -> AllKinds]
    BY DEF TypeOK, AllKinds, Rotating
  <2>6. handle' \in [Fds -> Fds \cup {None}]
    BY DEF TypeOK
  <2> QED
    BY <2>1, <2>2, <2>3, <2>4, <2>5, <2>6 DEF TypeOK
<1>2. Room(0)'
  BY DEF TypeOK
<1>3. Fresh'
  BY DEF TypeOK, Fresh, Translated, NoHandles, InHand
<1>4. Named'
  BY DEF TypeOK, Fresh, Named, Translated
<1>5. Faithful'
  BY DEF TypeOK, Fresh, Named, Faithful, Translated, NoHandles
<1>6. InHand'
  BY DEF TypeOK, Fresh, Named, Faithful, InHand, Translated, NoHandles
<1>7. Running'
  BY DEF TypeOK, Running, Active
<1>8. HandleReachable'
  BY DEF TypeOK, Fresh, Named, Faithful, InHand, Running, HandleReachable, Reachable, Translated, NoHandles, Rotating, Active
<1>9. PipesUsable'
  BY DEF TypeOK, Fresh, Named, Faithful, InHand, Running, HandleReachable, Reachable, PipesUsable, PipeFound, pipe_fd_stale, Translated, NoHandles, Rotating, Active
<1> QED
  BY <1>1, <1>2, <1>3, <1>4, <1>5, <1>6, <1>7, <1>8, <1>9

LEMMA InitHolds == Init => IInv
<1> SUFFICES ASSUME Init PROVE IInv
  OBVIOUS
<1> USE KindAssumption DEF Init, NoHandles, Idle, None, Fds, Branches, Children
<1>1. TypeOK
  BY DEF TypeOK, AllKinds
<1>2. Room(0) /\ Fresh
  BY DEF Room, Pending, Fresh
<1>3. Named /\ Faithful /\ InHand /\ Running
  BY DEF Named, Faithful, InHand, Running
<1>4. HandleReachable /\ PipesUsable
  BY DEF HandleReachable, PipesUsable, PipeFound, pipe_fd_stale
<1> QED
  BY <1>1, <1>2, <1>3, <1>4 DEF IInv

LEMMA ForkKeeps ==
    ASSUME IInv, Fork
    PROVE  IInv'
<1> USE KindAssumption DEF IInv, Fork, history, table, Ready, Idle, None, Fds, Branches, Children
<1>1. TypeOK'
  BY DEF TypeOK
<1>2. Room(0)' /\ Fresh'
  BY DEF TypeOK, Room, Pending, Fresh
<1>3. Named' /\ Faithful' /\ Running'
  BY DEF Named, Faithful, Running
<1>4. InHand'
  BY DEF InHand
<1>5. HandleReachable'
  BY DEF HandleReachable, Reachable, Named, TypeOK
<1>6. PipesUsable'
  BY DEF PipesUsable, PipeFound, pipe_fd_stale
<1> QED
  BY <1>1, <1>2, <1>3, <1>4, <1>5, <1>6

\* What Join and a dropped Fork have in common: the branches in done are
\* merged into the parent.
LEMMA MergeKeeps ==
    ASSUME IInv, NEW done \in SUBSET Children, Joined(done),
           phase = "forked", \A b \in done : taken[b] = Idle,
           phase' \in {"alone", "orphans"},
           UNCHANGED <<next, table, taken, kind, handle, closed, strayed>>
    PROVE  IInv'
<1> USE KindAssumption DEF IInv, table, None, Fds, Branches, Children
<1>1. \A r \in Fds :
        /\ reg'[Root][r] \in {reg[Root][r], reg[Left][r], reg[Right][r]}
        /\ \A b \in {Root} \cup done : reg[b][r] # None => reg'[Root][r] # None
  BY DEF TypeOK, Joined, Merged
<1>2. \A b \in Children, r \in Fds : reg'[b][r] \in {None, reg[b][r]}
  BY DEF Joined, NoHandles
<1>3. /\ seen'[Root] = seen[Root] \cup UNION {seen[b] : b \in done}
      /\ \A b \in Children : seen'[b] = {}
  BY DEF Joined
<1>4. TypeOK'
  <2>1. reg' \in [Branches -> [Fds -> Fds \cup {None}]]
    BY DEF TypeOK, Joined, Merged, NoHandles
  <2>2. seen' \in [Branches -> SUBSET Fds]
    BY DEF TypeOK, Joined
  <2> QED
    BY <2>1, <2>2 DEF TypeOK
<1>5. Room(0)'
  BY DEF Room, Pending, Idle
<1>6. Fresh'
  <2>1. \A b \in Branches, r \in Fds : r >= next => reg'[b][r] = None
    BY <1>1, <1>2 DEF Fresh
  <2>2. \A b \in Branches, r \in Fds : reg'[b][r] < next
    <3>1. None < next
      BY DEF TypeOK
    <3> QED
      BY <3>1, <1>1, <1>2 DEF Fresh
  <2> QED
    BY <2>1, <2>2 DEF Fresh
<1>7. Named'
  BY <1>3 DEF Named
<1>8. Faithful'
  <2>1. \A n \in Fds : current[n] # None => current[n] \in Fds
    BY DEF TypeOK
  <2>2. \A b \in Branches, r \in Fds, h \in Fds :
          (\A c \in Branches : reg[c][r] \in {None, h}) => reg'[b][r] \in {None, h}
    BY <1>1, <1>2
  <2>3. \A n \in Fds : handle[n] \in Fds \cup {None}
    BY DEF TypeOK
  <2>4. \A b \in Branches, n \in Fds : current[n] # None => reg'[b][current[n]] \in {None, handle[n]}
    <3> TAKE b \in Branches, n \in Fds
    <3>1. CASE handle[n] = None
      BY <3>1, <2>1, <1>1, <1>2 DEF Faithful
    <3> QED
      BY <3>1, <2>1, <2>2, <2>3 DEF Faithful
  <2>5. \A b \in Branches, n \in Fds : handle[n] # None => reg'[b][n] \in {None, handle[n]}
    BY <2>2, <2>3 DEF Faithful
  <2> QED
    BY <2>4, <2>5 DEF Faithful
<1>9. InHand'
  <2>1. \A b, c \in Branches, r \in Fds : taken[b] # Idle => reg'[c][r] # taken[b].handle
    BY <1>1, <1>2 DEF InHand, TypeOK
  <2> QED
    BY <2>1 DEF InHand, Idle
<1>10. Running'
  BY <1>3 DEF Running
<1>11. HandleReachable'
  <2> SUFFICES ASSUME NEW b \in {Root} \cup done, NEW n \in seen[b] \ (closed \cup strayed),
                      kind[handle[n]] \in Rotating
               PROVE  current[n] # None /\ reg'[Root][current[n]] = handle[n]
    BY <1>3 DEF HandleReachable, Reachable
  <2>1. n \in Fds /\ taken[b] = Idle
    BY DEF TypeOK, Running
  <2>2. Reachable(b, n)
    BY DEF HandleReachable
  <2>3. current[n] \in Fds /\ reg[b][current[n]] = handle[n]
    BY <2>1, <2>2 DEF Reachable, Idle, TypeOK
  <2>4. handle[n] # None
    BY DEF Named
  <2>5. reg'[Root][current[n]] # None
    BY <1>1, <2>3, <2>4
  <2> QED
    BY <1>1, <2>1, <2>3, <2>5 DEF Faithful
<1>12. PipesUsable'
  <2> SUFFICES ASSUME NEW b \in {Root} \cup done, NEW n \in seen[b] \ (closed \cup strayed),
                      kind[handle[n]] = "pipe"
               PROVE  n \in pipes /\ reg'[Root][n] # None
    BY <1>3 DEF PipesUsable, PipeFound, pipe_fd_stale
  <2> QED
    BY <1>1 DEF PipesUsable, PipeFound, pipe_fd_stale, TypeOK
<1> QED
  BY <1>4, <1>5, <1>6, <1>7, <1>8, <1>9, <1>10, <1>11, <1>12

LEMMA OrphanKeeps ==
    ASSUME IInv, OrphansGone \/ \E b \in Branches : OrphanEnds(b)
    PROVE  IInv'
<1> USE KindAssumption DEF IInv, history, table, None, Fds, Branches, Children
<1>1. CASE OrphansGone
  BY <1>1 DEF OrphansGone, TypeOK, Room, Pending, Fresh, Named, Faithful, InHand, Running,
              HandleReachable, Reachable, PipesUsable, PipeFound, pipe_fd_stale, Idle
<1>2. ASSUME NEW b \in Branches, OrphanEnds(b) PROVE IInv'
  <2>1. \A c \in Branches, r \in Fds : reg'[c][r] = IF c = b THEN None ELSE reg[c][r]
    BY <1>2 DEF OrphanEnds, NoHandles, TypeOK
  <2>2. seen[b] = {} /\ UNCHANGED <<next, table, taken, phase, history>>
    BY <1>2 DEF OrphanEnds, Running
  <2>3. TypeOK'
    BY <1>2, <2>2 DEF OrphanEnds, NoHandles, TypeOK
  <2>4. Room(0)' /\ Fresh'
    BY <2>1, <2>2 DEF Room, Pending, Idle, Fresh, TypeOK
  <2>5. Named' /\ Faithful' /\ Running'
    BY <2>1, <2>2 DEF Named, Faithful, Running, TypeOK
  <2>6. InHand'
    BY <2>1, <2>2 DEF InHand, Idle, TypeOK
  <2>7. HandleReachable'
    <3> SUFFICES ASSUME NEW c \in Branches, NEW n \in seen[c] \ (closed \cup strayed),
                        kind[handle[n]] \in Rotating
                 PROVE  Reachable(c, n)'
      BY <2>2 DEF HandleReachable
    <3>1. Reachable(c, n) /\ c # b /\ n \in Fds
      BY <2>2 DEF HandleReachable, TypeOK
    <3>2. current[n] # None => reg'[c][current[n]] = reg[c][current[n]]
      BY <3>1, <2>1 DEF TypeOK
    <3> QED
      BY <3>1, <3>2, <2>2 DEF Reachable
  <2>8. PipesUsable'
    BY <2>1, <2>2 DEF PipesUsable, PipeFound, pipe_fd_stale, TypeOK
  <2> QED
    BY <2>3, <2>4, <2>5, <2>6, <2>7, <2>8
<1> QED
  BY <1>1, <1>2

LEMMA NextKeeps == IInv /\ [Next]_vars => IInv'
<1> SUFFICES ASSUME IInv, [Next]_vars PROVE IInv'
  OBVIOUS
<1>1. ASSUME NEW b \in Branches, Bind(b) \/ Connect(b) \/ Spawn(b) PROVE IInv'
  <2>1. ASSUME NEW k \in {"direct", "stream", "child"}, Open(b, k) PROVE IInv'
    BY <2>1, OpenKeeps DEF Open
  <2> QED
    BY <1>1, <2>1 DEF Bind, Connect, Spawn
<1>2. ASSUME NEW b \in Branches, PipeOpen(b) PROVE IInv'
  BY <1>2, PipeOpenKeeps
<1>3. ASSUME NEW b \in Branches, NEW n \in Fds,
             Take(b, n) \/ Shutdown(b, n) \/ ShutdownLoses(b, n) \/ Kill(b, n)
      PROVE IInv'
  BY <1>3, TakeKeeps, RotateKeeps, ShutdownLosesKeeps DEF Shutdown, Kill
<1>4. ASSUME NEW b \in Branches, CallReturns(b) \/ StreamDropped(b) PROVE IInv'
  BY <1>4, GiveBackKeeps DEF CallReturns, StreamDropped, Awaits
<1>5. ASSUME NEW b \in Branches, Reaped(b) \/ WaitDropped(b) PROVE IInv'
  BY <1>5, ReapedKeeps, WaitDroppedKeeps
<1>6. ASSUME NEW b \in Branches, NEW n \in Fds, Dup(b, n) \/ Close(b, n) PROVE IInv'
  BY <1>6, DupKeeps, CloseKeeps
<1>7. ASSUME NEW b \in Branches, NEW n \in Fds, NEW m \in Fds, Dup2(b, n, m) PROVE IInv'
  BY <1>7, Dup2Keeps
<1>8. ASSUME NEW b \in Branches, Replace(b) PROVE IInv'
  BY <1>8, ReplaceKeeps
<1>9. ASSUME OrphansGone \/ \E b \in Branches : OrphanEnds(b) PROVE IInv'
  BY <1>9, OrphanKeeps
<1>10. CASE Fork
  BY <1>10, ForkKeeps
<1>11. CASE Join
  BY <1>11, MergeKeeps DEF Join
<1>12. ASSUME NEW done \in SUBSET Children, DropFork(done) PROVE IInv'
  BY <1>12, MergeKeeps DEF DropFork
<1>13. CASE UNCHANGED vars
  BY <1>13 DEF vars, table, history, IInv, TypeOK, Room, Pending, Fresh, Named, Faithful, InHand,
               Running, HandleReachable, Reachable, PipesUsable, PipeFound, pipe_fd_stale
<1> QED
  BY <1>1, <1>2, <1>3, <1>4, <1>5, <1>6, <1>7, <1>8, <1>9, <1>10, <1>11, <1>12, <1>13 DEF Next

LEMMA Inductive == Spec => []IInv
  BY InitHolds, NextKeeps, PTL DEF Spec

\* The tables of the executor and of the branches keep their types: a name
\* leads to a fd or to nothing, and what is in hand has a name and a handle.
THEOREM TypesKept == Spec => []TypeOK
<1>1. IInv => TypeOK
  BY DEF IInv
<1> QED
  BY <1>1, Inductive, PTL

\* Whatever is called, refused, dropped, forked and joined, the name of an
\* open stream or child leads to the handle it was given for, unless a branch
\* has closed it or it has strayed.
THEOREM RotationIsHidden == Spec => []HandleReachable
<1>1. IInv => HandleReachable
  BY DEF IInv
<1> QED
  BY <1>1, Inductive, PTL

\* The halves of a pipe stay usable in every branch that has them open, unless
\* they are closed in the other branch.
THEOREM PipesStayUsable == Spec => []PipesUsable
<1>1. IInv => PipesUsable
  BY DEF IInv
<1> QED
  BY <1>1, Inductive, PTL
-----------------------------------------------------------------------------
(* EntriesMatchNames *)

\* No branch has strayed with the handle.
Clean(h) == \A n \in strayed : handle[n] # h

\* The registries that are still a program's.
Runs(b) == b = Root \/ phase = "forked"

\* Every registry entry of such a handle is the one of an open name.
Owned ==
    \A b \in Branches, r \in Fds :
        /\ Runs(b) /\ reg[b][r] # None
        /\ kind[reg[b][r]] \in Rotating /\ Clean(reg[b][r])
        => \E n \in seen[b] \ closed : handle[n] = reg[b][r] /\ current[n] = r

\* What is in hand is held under an open name.
HandOwned ==
    /\ \A b \in Branches : taken[b] # Idle =>
        taken[b].name \notin closed /\ (Runs(b) => taken[b].name \in seen[b])
    /\ phase = "alone" => \A b \in Children : taken[b] = Idle

\* A closed name that is still in the tables leads to a handle that is gone.
Gone ==
    /\ \A n \in closed \cup strayed : handle[n] # None
    /\ \A n \in closed : current[n] # None =>
        \A b \in Branches :
            taken[b].handle # handle[n] /\ \A r \in Fds : reg[b][r] # handle[n]

EInv == IInv /\ Owned /\ HandOwned /\ Gone

LEMMA OpenOwned ==
    ASSUME EInv, NEW b \in Branches, NEW k \in Kinds, Open(b, k)
    PROVE  Owned' /\ HandOwned' /\ Gone'
<1> USE DEF EInv
<1>f. IInv
  OBVIOUS
<1>a. next \in Fds /\ Ready(b)
  BY KindAssumption, Facts DEF Open, Room, Pending, Fds
<1>b. \A c \in Branches, s \in Fds :
         reg'[c][s] = IF c = b /\ s = next THEN next ELSE reg[c][s]
  BY <1>f, <1>a DEF Open, IInv, TypeOK
<1>c. /\ \A s \in Fds : s # next => current'[s] = current[s] /\ handle'[s] = handle[s] /\ kind'[s] = kind[s]
      /\ current'[next] = IF k \in Rotating THEN next ELSE current[next]
      /\ handle'[next] = next /\ kind'[next] = k
  BY <1>f, <1>a DEF Open, IInv, TypeOK
<1>d. \A c \in Branches : seen'[c] = IF c = b THEN seen[c] \cup {next} ELSE seen[c]
  BY <1>f, <1>a DEF Open, IInv, TypeOK
<1>e. next \notin closed \cup strayed
  BY <1>a, <1>f, Facts DEF Gone
<1>g. UNCHANGED <<pipes, taken, phase, closed, strayed>>
  BY DEF Open
<1>h. \A s \in closed \cup strayed : s \in Fds /\ handle'[s] = handle[s] /\ current'[s] = current[s]
  BY <1>c, <1>e, <1>f, Facts
<1>n. next \in Nat
  BY KindAssumption, <1>a DEF Fds
<1>1. Owned'
  <2> SUFFICES ASSUME NEW c \in Branches, NEW r \in Fds, Runs(c), reg'[c][r] # None,
                      kind'[reg'[c][r]] \in Rotating, \A s \in strayed' : handle'[s] # reg'[c][r]
               PROVE  \E n \in seen'[c] \ closed : handle'[n] = reg'[c][r] /\ current'[n] = r
    BY <1>g DEF Owned, Runs, Clean
  <2>1. CASE c = b /\ r = next
    BY <2>1, <1>a, <1>b, <1>c, <1>d, <1>e
  <2>2. CASE ~(c = b /\ r = next)
    <3>1. reg'[c][r] = reg[c][r] /\ reg[c][r] # next /\ reg[c][r] \in Fds
      BY <2>2, <1>b, <1>f, <1>n, Facts
    <3>2. Clean(reg[c][r]) /\ kind[reg[c][r]] \in Rotating
      BY <3>1, <1>c, <1>g, <1>h DEF Clean
    <3>3. PICK n \in seen[c] \ closed : handle[n] = reg[c][r] /\ current[n] = r
      BY <3>1, <3>2 DEF Owned
    <3>4. n # next /\ n \in Fds
      BY <3>3, <1>f, <1>n, Facts
    <3> QED
      BY <3>1, <3>3, <3>4, <1>c, <1>d
  <2> QED
    BY <2>1, <2>2
<1>2. HandOwned'
  BY <1>d, <1>g DEF HandOwned, Runs
<1>3. Gone'
  <2>1. \A n \in closed \cup strayed : handle'[n] # None
    BY <1>h DEF Gone
  <2>2. ASSUME NEW n \in closed, current'[n] # None, NEW c \in Branches
        PROVE  taken'[c].handle # handle'[n] /\ \A r \in Fds : reg'[c][r] # handle'[n]
    <3>1. handle[n] < next /\ n \in Fds
      BY <1>f, Facts
    <3>2. handle[n] # next
      BY <3>1, <1>n
    <3> QED
      BY <2>2, <3>1, <3>2, <1>b, <1>g, <1>h DEF Gone
  <2> QED
    BY <2>1, <2>2, <1>g DEF Gone
<1> QED
  BY <1>1, <1>2, <1>3

LEMMA PipeOpenOwned ==
    ASSUME EInv, NEW b \in Branches, PipeOpen(b)
    PROVE  Owned' /\ HandOwned' /\ Gone'
<1> USE DEF EInv
<1>f. IInv
  OBVIOUS
<1>a. next \in Fds /\ next + 1 \in Fds
  BY KindAssumption, Facts DEF PipeOpen, Room, Pending, Fds
<1>b. \A c \in Branches, s \in Fds :
         reg'[c][s] = IF c = b /\ s \in {next, next + 1} THEN s ELSE reg[c][s]
  BY <1>f, <1>a DEF PipeOpen, IInv, TypeOK
<1>c. /\ \A s \in Fds : s \notin {next, next + 1} => handle'[s] = handle[s] /\ kind'[s] = kind[s]
      /\ \A s \in {next, next + 1} : handle'[s] = s /\ kind'[s] = "pipe"
  BY <1>f, <1>a DEF PipeOpen, IInv, TypeOK
<1>d. \A c \in Branches : seen[c] \subseteq seen'[c]
  BY <1>f, <1>a DEF PipeOpen, IInv, TypeOK
<1>n. next \in Nat /\ next + 1 >= next /\ next >= next
  BY KindAssumption, <1>a DEF Fds
<1>e. next \notin closed \cup strayed /\ next + 1 \notin closed \cup strayed
  BY <1>a, <1>n, <1>f, Facts DEF Gone
<1>g. UNCHANGED <<current, taken, phase, closed, strayed>>
  BY DEF PipeOpen
<1>h. \A s \in closed \cup strayed : s \in Fds /\ handle'[s] = handle[s]
  BY <1>c, <1>e, <1>f, Facts
<1>i. \A s \in Fds : handle[s] \notin {next, next + 1}
  <2> TAKE s \in Fds
  <2>1. handle[s] < next /\ handle[s] \in Nat
    BY <1>f, Facts, KindAssumption DEF Fds, None
  <2> QED
    BY <2>1, <1>n
<1>1. Owned'
  <2> SUFFICES ASSUME NEW c \in Branches, NEW r \in Fds, Runs(c), reg'[c][r] # None,
                      kind'[reg'[c][r]] \in Rotating, \A s \in strayed' : handle'[s] # reg'[c][r]
               PROVE  \E n \in seen'[c] \ closed : handle'[n] = reg'[c][r] /\ current'[n] = r
    BY <1>g DEF Owned, Runs, Clean
  <2>1. ~(c = b /\ r \in {next, next + 1})
    BY <1>b, <1>c DEF Rotating
  <2>2. reg'[c][r] = reg[c][r] /\ reg[c][r] \in Fds
    BY <2>1, <1>b, <1>f, Facts
  <2>3. reg[c][r] \notin {next, next + 1}
    BY <2>2, <1>c DEF Rotating
  <2>4. Clean(reg[c][r]) /\ kind[reg[c][r]] \in Rotating
    BY <2>2, <2>3, <1>c, <1>g, <1>h DEF Clean
  <2>5. PICK n \in seen[c] \ closed : handle[n] = reg[c][r] /\ current[n] = r
    BY <2>2, <2>4 DEF Owned
  <2>6. n \in Fds /\ handle[n] # None
    BY <2>5, <1>f, Facts
  <2>7. n \notin {next, next + 1}
    BY <2>6, <1>a, <1>n, <1>f, Facts
  <2> QED
    BY <2>2, <2>5, <2>6, <2>7, <1>c, <1>d, <1>g
<1>2. HandOwned'
  BY <1>d, <1>g DEF HandOwned, Runs
<1>3. Gone'
  <2>1. \A n \in closed \cup strayed : handle'[n] # None
    BY <1>h DEF Gone
  <2>2. ASSUME NEW n \in closed, current'[n] # None, NEW c \in Branches
        PROVE  taken'[c].handle # handle'[n] /\ \A r \in Fds : reg'[c][r] # handle'[n]
    <3>1. handle[n] \notin {next, next + 1} /\ n \in Fds
      BY <1>f, <1>i, Facts
    <3> QED
      BY <2>2, <3>1, <1>b, <1>g, <1>h DEF Gone
  <2> QED
    BY <2>1, <2>2, <1>g DEF Gone
<1> QED
  BY <1>1, <1>2, <1>3

\* A name that leads to a handle has not been closed.
LEMMA FoundOpen ==
    ASSUME EInv, NEW b \in Branches, NEW n \in Fds, Found(b, n)
    PROVE  /\ current[n] \in Fds /\ reg[b][current[n]] \in Fds /\ reg[b][current[n]] = handle[n]
           /\ n \in seen[b] \ closed
<1>1. IInv /\ Gone
  BY DEF EInv
<1>2. current[n] \in Fds /\ reg[b][current[n]] \in Fds /\ reg[b][current[n]] = handle[n]
  BY <1>1, Facts DEF Found
<1> QED
  BY <1>1, <1>2 DEF Gone, Found

LEMMA TakeOwned ==
    ASSUME EInv, NEW b \in Branches, NEW n \in Fds, Take(b, n)
    PROVE  Owned' /\ HandOwned' /\ Gone'
<1> USE DEF EInv
<1>f. IInv /\ Found(b, n)
  BY DEF Take
<1>a. /\ current[n] \in Fds /\ reg[b][current[n]] \in Fds /\ reg[b][current[n]] = handle[n]
      /\ n \in seen[b] \ closed
  BY <1>f, FoundOpen
<1>b. \A c \in Branches, s \in Fds :
         reg'[c][s] = IF c = b /\ s = current[n] THEN None ELSE reg[c][s]
  BY <1>f, <1>a DEF Take, IInv, TypeOK
<1>c. \A c \in Branches : taken'[c] = IF c = b THEN [name |-> n, handle |-> handle[n]] ELSE taken[c]
  BY <1>f, <1>a DEF Take, IInv, TypeOK
<1>g. UNCHANGED <<current, phase, kind, handle, seen, closed, strayed>>
  BY DEF Take, table, history
<1>1. Owned'
  BY <1>b, <1>g DEF Owned, Runs, Clean
<1>2. HandOwned'
  <2>1. phase = "alone" => b = Root
    BY <1>f DEF Found, Ready, Active
  <2>2. \A c \in Branches : taken'[c] # Idle =>
        taken'[c].name \notin closed /\ (Runs(c) => taken'[c].name \in seen[c])
    BY <1>a, <1>c DEF HandOwned
  <2>3. phase = "alone" => \A c \in Children : taken'[c] = Idle
    BY <2>1, <1>c, KindAssumption DEF HandOwned, Branches, Children
  <2> QED
    BY <2>2, <2>3, <1>g DEF HandOwned, Runs
<1>3. Gone'
  <2>1. \A m \in closed : current[m] # None => handle[m] # handle[n]
    BY <1>a DEF Gone
  <2>2. ASSUME NEW m \in closed, current[m] # None, NEW c \in Branches
        PROVE  taken'[c].handle # handle[m] /\ \A r \in Fds : reg'[c][r] # handle[m]
    BY <2>1, <2>2, <1>b, <1>c, <1>a DEF Gone
  <2> QED
    BY <2>2, <1>g DEF Gone
<1> QED
  BY <1>1, <1>2, <1>3

LEMMA RotateOwned ==
    ASSUME EInv, NEW b \in Branches, NEW n \in Fds, Rotate(b, n)
    PROVE  Owned' /\ HandOwned' /\ Gone'
<1> USE DEF EInv
<1>f. IInv /\ Found(b, n)
  BY DEF Rotate
<1>a. /\ current[n] \in Fds /\ reg[b][current[n]] \in Fds /\ reg[b][current[n]] = handle[n]
      /\ n \in seen[b] \ closed /\ next \in Fds
  <2>1. next \in Fds
    BY <1>f, KindAssumption, Facts DEF Rotate, Room, Pending, Fds
  <2> QED
    BY <1>f, <2>1, FoundOpen
<1>b. \A c \in Branches, s \in Fds :
         reg'[c][s] = IF c = b /\ s = next THEN handle[n]
                      ELSE IF c = b /\ s = current[n] THEN None ELSE reg[c][s]
  BY <1>f, <1>a DEF Rotate, IInv, TypeOK
<1>c. \A s \in Fds : current'[s] = IF s = n THEN next ELSE current[s]
  BY <1>f, <1>a DEF Rotate, IInv, TypeOK
<1>g. UNCHANGED <<taken, phase, kind, handle, seen, closed>> /\ strayed \subseteq strayed'
      /\ strayed' = strayed \cup Strays(b, n, handle[n])
  BY <1>a DEF Rotate
<1>h. Strays(b, n, handle[n]) \subseteq {n}
  BY DEF Strays
<1>1. Owned'
  <2> SUFFICES ASSUME NEW c \in Branches, NEW r \in Fds, Runs(c), reg'[c][r] # None,
                      kind[reg'[c][r]] \in Rotating, \A s \in strayed' : handle'[s] # reg'[c][r]
               PROVE  \E m \in seen[c] \ closed : handle[m] = reg'[c][r] /\ current'[m] = r
    BY <1>g DEF Owned, Runs, Clean
  <2>1. CASE c = b /\ r = next
    BY <2>1, <1>a, <1>b, <1>c
  <2>2. CASE ~(c = b /\ r = next)
    <3>1. reg'[c][r] = reg[c][r] /\ ~(c = b /\ r = current[n])
      BY <2>2, <1>b
    <3>2. Clean(reg[c][r])
      BY <3>1, <1>g DEF Clean
    <3>3. PICK m \in seen[c] \ closed : handle[m] = reg[c][r] /\ current[m] = r
      BY <3>1, <3>2 DEF Owned
    <3>4. m # n
      <4> SUFFICES ASSUME m = n PROVE FALSE
        OBVIOUS
      <4>1. c # b /\ reg[c][r] = handle[n] /\ r = current[n]
        BY <3>1, <3>3
      <4>2. b # Root
        BY <4>1, <1>f, KindAssumption DEF Runs, Found, Ready, Active, Branches, Children
      <4>3. n \in strayed'
        BY <4>1, <4>2, <1>g DEF Strays
      <4> QED
        BY <3>1, <4>1, <4>3, <1>g DEF Clean
    <3>5. m \in Fds
      BY <3>3, <1>f, Facts
    <3> QED
      BY <3>1, <3>3, <3>4, <3>5, <1>c
  <2> QED
    BY <2>1, <2>2
<1>2. HandOwned'
  BY <1>g DEF HandOwned, Runs
<1>3. Gone'
  <2>1. \A m \in closed \cup strayed' : handle[m] # None
    BY <1>a, <1>g, <1>h, <1>f, Facts DEF Gone
  <2>2. ASSUME NEW m \in closed, current'[m] # None, NEW c \in Branches
        PROVE  taken[c].handle # handle[m] /\ \A r \in Fds : reg'[c][r] # handle[m]
    <3>1. m # n /\ m \in Fds
      BY <1>a, <1>f, Facts
    <3>2. current[m] # None
      BY <2>2, <3>1, <1>c
    <3>3. handle[m] # handle[n] /\ handle[m] # None
      BY <3>2, <1>a DEF Gone
    <3> QED
      BY <3>2, <3>3, <1>b DEF Gone
  <2> QED
    BY <2>1, <2>2, <1>g DEF Gone
<1> QED
  BY <1>1, <1>2, <1>3

LEMMA ShutdownLosesOwned ==
    ASSUME EInv, NEW b \in Branches, NEW n \in Fds, ShutdownLoses(b, n)
    PROVE  Owned' /\ HandOwned' /\ Gone'
<1> USE DEF EInv
<1>f. IInv /\ Found(b, n) /\ Sole(b, current[n])
  BY DEF ShutdownLoses
<1>a. /\ current[n] \in Fds /\ reg[b][current[n]] \in Fds /\ reg[b][current[n]] = handle[n]
      /\ n \in seen[b] \ closed
  BY <1>f, FoundOpen
<1>b. \A c \in Branches, s \in Fds :
         reg'[c][s] = IF c = b /\ s = current[n] THEN None ELSE reg[c][s]
  BY <1>f, <1>a DEF ShutdownLoses, IInv, TypeOK
<1>c. \A c \in Branches, s \in Fds : reg'[c][s] # handle[n]
  BY <1>a, <1>b, <1>f DEF Sole, None, Fds
<1>g. UNCHANGED <<current, taken, phase, kind, handle, seen, strayed>> /\ closed' = closed \cup {n}
  BY DEF ShutdownLoses, table
<1>1. Owned'
  <2> SUFFICES ASSUME NEW c \in Branches, NEW r \in Fds, Runs(c), reg'[c][r] # None,
                      kind[reg'[c][r]] \in Rotating, \A s \in strayed : handle[s] # reg'[c][r]
               PROVE  \E m \in seen[c] \ closed' : handle[m] = reg'[c][r] /\ current[m] = r
    BY <1>g DEF Owned, Runs, Clean
  <2>1. reg'[c][r] = reg[c][r]
    BY <1>b
  <2>2. PICK m \in seen[c] \ closed : handle[m] = reg[c][r] /\ current[m] = r
    BY <2>1 DEF Owned, Clean
  <2>3. m # n
    BY <2>1, <2>2, <1>c
  <2> QED
    BY <2>1, <2>2, <2>3, <1>g
<1>2. HandOwned'
  <2>1. \A c \in Branches : taken[c] # Idle => taken[c].name # n
    BY <1>a, <1>f, Facts DEF Sole
  <2> QED
    BY <2>1, <1>g DEF HandOwned, Runs
<1>3. Gone'
  <2>1. \A c \in Branches : taken[c].handle # handle[n]
    BY <1>a, <1>f DEF Sole
  <2>2. handle[n] # None
    BY <1>a, <1>f, Facts
  <2>3. ASSUME NEW m \in closed', current[m] # None, NEW c \in Branches
        PROVE  taken[c].handle # handle[m] /\ \A r \in Fds : reg'[c][r] # handle[m]
    <3>1. CASE m = n
      BY <3>1, <2>1, <1>c
    <3>2. CASE m # n
      <4>1. m \in closed /\ handle[m] # None
        BY <3>2, <1>g DEF Gone
      <4> QED
        BY <4>1, <2>3, <1>b DEF Gone
    <3> QED
      BY <3>1, <3>2
  <2> QED
    BY <2>2, <2>3, <1>g DEF Gone
<1> QED
  BY <1>1, <1>2, <1>3

LEMMA GiveBackOwned ==
    ASSUME EInv, NEW b \in Branches, taken[b] # Idle, GiveBack(b)
    PROVE  Owned' /\ HandOwned' /\ Gone'
<1> USE DEF EInv
<1> DEFINE n == taken[b].name
<1>f. IInv
  OBVIOUS
<1>a. /\ next \in Fds /\ n \in Fds /\ handle[n] \in Fds /\ taken[b].handle = handle[n]
      /\ n \notin closed /\ current[n] # None
  <2>1. n \in Fds /\ handle[n] \in Fds /\ taken[b].handle = handle[n] /\ n \notin closed
    BY <1>f, Facts DEF HandOwned
  <2>2. current[n] # None
    BY <2>1 DEF IInv, InHand
  <2>3. next \in Fds
    BY <1>f, KindAssumption DEF IInv, TypeOK, Room, Pending, Fds, Branches, Children
  <2> QED
    BY <2>1, <2>2, <2>3
<1>b. \A c \in Branches, s \in Fds :
         reg'[c][s] = IF c = b /\ s = next THEN handle[n] ELSE reg[c][s]
  BY <1>f, <1>a DEF GiveBack, IInv, TypeOK
<1>c. \A s \in Fds : current'[s] = IF s = n THEN next ELSE current[s]
  BY <1>f, <1>a DEF GiveBack, IInv, TypeOK
<1>d. \A c \in Branches : taken'[c] = IF c = b THEN Idle ELSE taken[c]
  BY <1>f, <1>a DEF GiveBack, IInv, TypeOK
<1>e. \A c \in Branches, s \in Fds : reg[c][s] # handle[n]
  BY <1>f, <1>a DEF IInv, InHand
<1>g. UNCHANGED <<phase, kind, handle, seen, closed, strayed>>
  BY DEF GiveBack, history
<1> HIDE DEF n
<1>1. Owned'
  <2> SUFFICES ASSUME NEW c \in Branches, NEW r \in Fds, Runs(c), reg'[c][r] # None,
                      kind[reg'[c][r]] \in Rotating, \A s \in strayed : handle[s] # reg'[c][r]
               PROVE  \E m \in seen[c] \ closed : handle[m] = reg'[c][r] /\ current'[m] = r
    BY <1>g DEF Owned, Runs, Clean
  <2>1. CASE c = b /\ r = next
    <3>1. n \in seen[b] \ closed
      BY <2>1, <1>a DEF HandOwned, n
    <3> QED
      BY <2>1, <3>1, <1>a, <1>b, <1>c
  <2>2. CASE ~(c = b /\ r = next)
    <3>1. reg'[c][r] = reg[c][r]
      BY <2>2, <1>b
    <3>2. PICK m \in seen[c] \ closed : handle[m] = reg[c][r] /\ current[m] = r
      BY <3>1 DEF Owned, Clean
    <3>3. m # n /\ m \in Fds
      BY <3>2, <1>e, <1>f, Facts
    <3> QED
      BY <3>1, <3>2, <3>3, <1>c
  <2> QED
    BY <2>1, <2>2
<1>2. HandOwned'
  BY <1>d, <1>g DEF HandOwned, Runs, Branches
<1>3. Gone'
  <2>1. ASSUME NEW m \in closed, current'[m] # None, NEW c \in Branches
        PROVE  taken'[c].handle # handle[m] /\ \A r \in Fds : reg'[c][r] # handle[m]
    <3>1. m # n /\ m \in Fds /\ handle[m] # None
      BY <1>a, <1>f, Facts DEF Gone
    <3>2. current[m] # None
      BY <2>1, <3>1, <1>c
    <3>3. handle[m] # handle[n]
      BY <3>2, <1>a DEF Gone, n
    <3> QED
      BY <3>1, <3>2, <3>3, <1>b, <1>d DEF Gone, Idle
  <2> QED
    BY <2>1, <1>g DEF Gone
<1> QED
  BY <1>1, <1>2, <1>3

\* A Wait is over without its child: it is reaped, or lost with the future.
LEMMA ChildEndsOwned ==
    ASSUME EInv, NEW b \in Branches, Reaped(b) \/ WaitDropped(b)
    PROVE  Owned' /\ HandOwned' /\ Gone'
<1> USE DEF EInv
<1> DEFINE n == taken[b].name
<1>f. IInv /\ taken[b] # Idle
  BY DEF Reaped, WaitDropped, Awaits
<1>a. n \in Fds /\ handle[n] \in Fds /\ taken[b].handle = handle[n] /\ n \notin closed
  BY <1>f, Facts DEF HandOwned
<1>c. \A s \in Fds : current'[s] = current[s] \/ (s = n /\ current'[s] = None)
  <2>1. CASE Reaped(b)
    BY <2>1, <1>f, <1>a DEF Reaped, IInv, TypeOK
  <2>2. CASE WaitDropped(b)
    BY <2>2 DEF WaitDropped, table
  <2> QED
    BY <2>1, <2>2
<1>d. \A c \in Branches : taken'[c] = IF c = b THEN Idle ELSE taken[c]
  BY <1>f, <1>a DEF Reaped, WaitDropped, IInv, TypeOK
<1>e. /\ \A c \in Branches, s \in Fds : reg[c][s] # handle[n]
      /\ \A c \in Branches : taken'[c].handle # handle[n]
  <2>3. \A c \in Branches : c # b => taken[c].handle # handle[n]
    BY <1>f, <1>a DEF IInv, InHand
  <2> QED
    BY <2>3, <1>d, <1>f, <1>a DEF IInv, InHand, Idle, None, Fds
<1>g. UNCHANGED <<reg, phase, kind, handle, seen, strayed>> /\ closed' = closed \cup {n}
  BY DEF Reaped, WaitDropped
<1>h. \A c \in Branches : c # b /\ taken[c] # Idle => taken[c].name # n
  BY <1>f, <1>a, Facts DEF IInv, InHand
<1> HIDE DEF n
<1>1. Owned'
  <2> SUFFICES ASSUME NEW c \in Branches, NEW r \in Fds, Runs(c), reg[c][r] # None,
                      kind[reg[c][r]] \in Rotating, \A s \in strayed : handle[s] # reg[c][r]
               PROVE  \E m \in seen[c] \ closed' : handle[m] = reg[c][r] /\ current'[m] = r
    BY <1>g DEF Owned, Runs, Clean
  <2>1. PICK m \in seen[c] \ closed : handle[m] = reg[c][r] /\ current[m] = r
    BY DEF Owned, Clean
  <2>2. m # n /\ m \in Fds
    BY <2>1, <1>e, <1>f, Facts
  <2> QED
    BY <2>1, <2>2, <1>c, <1>g
<1>2. HandOwned'
  <2>1. \A c \in Branches : taken'[c] # Idle => taken'[c] = taken[c] /\ taken[c].name # n
    BY <1>d, <1>h
  <2> QED
    BY <2>1, <1>d, <1>g DEF HandOwned, Runs, Branches
<1>3. Gone'
  <2>1. ASSUME NEW m \in closed', current'[m] # None, NEW c \in Branches
        PROVE  taken'[c].handle # handle[m] /\ \A r \in Fds : reg[c][r] # handle[m]
    <3>1. CASE m = n
      BY <3>1, <1>e
    <3>2. CASE m # n
      <4>1. m \in closed /\ m \in Fds /\ handle[m] # None /\ current[m] # None
        BY <3>2, <2>1, <1>c, <1>g, <1>f, Facts DEF Gone
      <4> QED
        BY <4>1, <1>d DEF Gone, Idle
    <3> QED
      BY <3>1, <3>2
  <2>2. handle[n] # None
    BY <1>a DEF None, Fds
  <2> QED
    BY <2>1, <2>2, <1>g DEF Gone
<1> QED
  BY <1>1, <1>2, <1>3

LEMMA ReplaceOwned ==
    ASSUME EInv, NEW b \in Branches, Replace(b)
    PROVE  Owned' /\ HandOwned' /\ Gone'
<1> USE DEF EInv
<1>f. IInv
  OBVIOUS
<1>b. \A c \in Branches, s \in Fds : reg'[c][s] = IF c = b THEN None ELSE reg[c][s]
  BY <1>f DEF Replace, IInv, TypeOK, NoHandles
<1>c. \A c \in Branches : seen'[c] = IF c = b THEN {} ELSE seen[c]
  BY <1>f DEF Replace, IInv, TypeOK
<1>g. UNCHANGED <<current, taken, phase, kind, handle, closed, strayed>> /\ taken[b] = Idle
  BY DEF Replace, Ready, table
<1>1. Owned'
  BY <1>b, <1>c, <1>g DEF Owned, Runs, Clean
<1>2. HandOwned'
  BY <1>c, <1>g DEF HandOwned, Runs
<1>3. Gone'
  BY <1>b, <1>g DEF Gone
<1> QED
  BY <1>1, <1>2, <1>3

LEMMA ForkOwned ==
    ASSUME EInv, Fork
    PROVE  Owned' /\ HandOwned' /\ Gone'
<1> USE DEF EInv
<1>f. IInv /\ Runs(Root) /\ Root \in Branches
  BY DEF Runs, Branches
<1>b. \A c \in Branches : reg'[c] = reg[Root] /\ seen'[c] = seen[Root]
  BY DEF Fork
<1>g. UNCHANGED <<current, taken, kind, handle, closed, strayed>> /\ taken[Root] = Idle /\ phase = "alone"
  BY DEF Fork, Ready, table
<1>1. Owned'
  BY <1>f, <1>b, <1>g DEF Owned, Clean
<1>2. HandOwned'
  BY <1>f, <1>b, <1>g DEF HandOwned, Branches, Fork
<1>3. Gone'
  BY <1>f, <1>b, <1>g DEF Gone
<1> QED
  BY <1>1, <1>2, <1>3

LEMMA MergeOwned ==
    ASSUME EInv, NEW done \in SUBSET Children, Joined(done),
           phase = "forked", \A b \in done : taken[b] = Idle,
           phase' = "orphans" \/ (phase' = "alone" /\ done = Children),
           UNCHANGED <<next, table, taken, kind, handle, closed, strayed>>
    PROVE  Owned' /\ HandOwned' /\ Gone'
<1> USE DEF EInv
<1>f. IInv /\ \A b \in Branches : Runs(b)
  BY DEF Runs
<1>b. \A r \in Fds : \E b \in {Root} \cup done : reg'[Root][r] = reg[b][r]
  BY KindAssumption DEF Joined, Merged, Children, Branches
<1>c. \A b \in Children, r \in Fds : reg'[b][r] \in {None, reg[b][r]}
  BY KindAssumption DEF Joined, NoHandles, Children, Branches
<1>d. seen'[Root] = seen[Root] \cup UNION {seen[b] : b \in done}
  BY DEF Joined, Branches
<1>e. {Root} \cup done \subseteq Branches /\ \A b \in {Root} \cup done : seen[b] \subseteq seen'[Root]
  BY <1>d DEF Branches
<1>g. UNCHANGED <<current, taken, kind, handle, closed, strayed>>
  BY DEF table
<1>1. Owned'
  <2> SUFFICES ASSUME NEW r \in Fds, reg'[Root][r] # None,
                      kind[reg'[Root][r]] \in Rotating, \A s \in strayed : handle[s] # reg'[Root][r]
               PROVE  \E m \in seen'[Root] \ closed : handle[m] = reg'[Root][r] /\ current[m] = r
    BY <1>g DEF Owned, Runs, Clean
  <2>1. PICK b \in {Root} \cup done : reg'[Root][r] = reg[b][r]
    BY <1>b
  <2>2. PICK m \in seen[b] \ closed : handle[m] = reg[b][r] /\ current[m] = r
    BY <2>1, <1>e, <1>f DEF Owned, Clean
  <2> QED
    BY <2>1, <2>2, <1>e
<1>2. HandOwned'
  <2>1. taken[Root] = Idle
    BY DEF IInv, Running
  <2>2. \A b \in Branches : Runs(b)' => b = Root
    BY DEF Runs
  <2> QED
    BY <2>1, <2>2, <1>g DEF HandOwned
<1>3. Gone'
  <2>1. \A b \in Branches, r \in Fds : reg'[b][r] = None \/ \E c \in Branches : reg'[b][r] = reg[c][r]
    BY <1>b, <1>c, <1>e DEF Branches
  <2> QED
    BY <2>1, <1>g DEF Gone
<1> QED
  BY <1>1, <1>2, <1>3

LEMMA OrphanOwned ==
    ASSUME EInv, OrphansGone \/ \E b \in Branches : OrphanEnds(b)
    PROVE  Owned' /\ HandOwned' /\ Gone'
<1> USE DEF EInv
<1>1. CASE OrphansGone
  BY <1>1 DEF OrphansGone, Owned, HandOwned, Gone, Runs, Clean, table, history
<1>2. ASSUME NEW b \in Branches, OrphanEnds(b) PROVE Owned' /\ HandOwned' /\ Gone'
  <2>1. \A c \in Branches, r \in Fds : reg'[c][r] = IF c = b THEN None ELSE reg[c][r]
    BY <1>2 DEF OrphanEnds, NoHandles, IInv, TypeOK
  <2>2. UNCHANGED <<current, taken, phase, kind, handle, seen, closed, strayed>>
    BY <1>2 DEF OrphanEnds, table, history
  <2> QED
    BY <2>1, <2>2 DEF Owned, HandOwned, Gone, Runs, Clean
<1> QED
  BY <1>1, <1>2

\* What a name that is live leads to is its handle, and no call holds that.
LEMMA LiveOwned ==
    ASSUME EInv, NEW b \in Branches, NEW n \in Fds, Live(b, n)
    PROVE  /\ Translated(n) \in Fds /\ Translated(n) # next
           /\ reg[b][Translated(n)] = handle[n] /\ handle[n] \in Fds
           /\ \A c \in Branches : taken[c] # Idle => taken[c].name # n
           /\ \A s \in closed : current[s] # None => handle[s] # handle[n]
<1> USE DEF EInv
<1>1. IInv /\ n \in seen[b] /\ reg[b][Translated(n)] # None
  BY DEF Live
<1>2. Translated(n) \in Fds
  BY <1>1, Facts DEF Translated
<1>3. reg[b][Translated(n)] = handle[n] /\ handle[n] \in Fds
  <2>1. handle[n] # None
    BY <1>1, Facts
  <2>2. reg[b][Translated(n)] \in {None, handle[n]}
    BY <1>1, <2>1, Facts DEF Translated, IInv, Faithful
  <2> QED
    BY <1>1, <2>1, <2>2, Facts
<1>4. Translated(n) # next
  <2>1. next \in Nat
    BY <1>1, Facts
  <2> QED
    BY <1>1, <1>2, <2>1, Facts
<1>5. \A c \in Branches : taken[c] # Idle => taken[c].name # n
  BY <1>1, <1>2, <1>3, Facts DEF IInv, InHand
<1>6. \A s \in closed : current[s] # None => handle[s] # handle[n]
  BY <1>2, <1>3 DEF Gone
<1> QED
  BY <1>2, <1>3, <1>4, <1>5, <1>6

\* A branch that ends or rotates a name that others can see has strayed.
LEMMA OthersSee ==
    ASSUME NEW b \in Branches, Ready(b), NEW c \in Branches, c # b, Runs(c),
           NEW n, NEW r \in Fds, NEW h, reg[c][r] = h
    PROVE  n \in Strays(b, n, h)
<1>1. b # Root
  BY KindAssumption DEF Ready, Active, Runs, Branches, Children
<1> QED
  BY <1>1 DEF Strays

\* Only what is closed or strayed is not in the table.
LEMMA CopyOwned ==
    ASSUME EInv, NEW b \in Branches, NEW n \in Fds, Live(b, n),
           kind[handle[n]] \in Rotating, next \notin CopyStrays(n)
    PROVE  current[n] # None
<1>1. n \notin closed \cup strayed
  BY DEF CopyStrays
<1>2. Reachable(b, n) /\ taken[b] = Idle
  BY <1>1 DEF EInv, IInv, HandleReachable, Live, Ready
<1> QED
  BY <1>2 DEF Reachable, Idle, None, Fds

LEMMA CloseOwned ==
    ASSUME EInv, NEW b \in Branches, NEW n \in Fds, Close(b, n)
    PROVE  Owned' /\ HandOwned' /\ Gone'
<1> USE DEF EInv
<1>f. IInv /\ Live(b, n) /\ Ready(b)
  BY DEF Close, Live
<1>a. /\ Translated(n) \in Fds /\ Translated(n) # next
      /\ reg[b][Translated(n)] = handle[n] /\ handle[n] \in Fds
      /\ \A c \in Branches : taken[c] # Idle => taken[c].name # n
      /\ \A s \in closed : current[s] # None => handle[s] # handle[n]
  BY <1>f, LiveOwned
<1>b. \A c \in Branches, s \in Fds :
         reg'[c][s] = IF c = b /\ s = Translated(n) THEN None ELSE reg[c][s]
  BY <1>f, <1>a DEF Close, IInv, TypeOK
<1>c. \A s \in Fds : current'[s] = IF s = n THEN None ELSE current[s]
  BY <1>f, <1>a DEF Close, IInv, TypeOK
<1>g. UNCHANGED <<taken, phase, kind, handle, seen>> /\ closed' = closed \cup {n}
      /\ strayed' = strayed \cup Strays(b, n, handle[n])
  BY <1>a DEF Close
<1>1. Owned'
  <2> SUFFICES ASSUME NEW c \in Branches, NEW r \in Fds, Runs(c), reg'[c][r] # None,
                      kind[reg'[c][r]] \in Rotating, \A s \in strayed' : handle[s] # reg'[c][r]
               PROVE  \E m \in seen[c] \ closed' : handle[m] = reg'[c][r] /\ current'[m] = r
    BY <1>g DEF Owned, Runs, Clean
  <2>1. reg'[c][r] = reg[c][r] /\ ~(c = b /\ r = Translated(n))
    BY <1>b
  <2>2. PICK m \in seen[c] \ closed : handle[m] = reg[c][r] /\ current[m] = r
    BY <2>1, <1>g DEF Owned, Clean
  <2>3. m # n
    <3> SUFFICES ASSUME m = n PROVE FALSE
      OBVIOUS
    <3>1. c # b /\ reg[c][r] = handle[n]
      BY <2>1, <2>2 DEF Translated, None, Fds
    <3>2. n \in strayed'
      BY <3>1, <1>f, <1>g, OthersSee
    <3> QED
      BY <2>1, <3>1, <3>2
  <2>4. m \in Fds
    BY <2>2, <1>f, Facts
  <2> QED
    BY <2>1, <2>2, <2>3, <2>4, <1>c, <1>g
<1>2. HandOwned'
  BY <1>a, <1>g DEF HandOwned, Runs
<1>3. Gone'
  <2>1. \A m \in closed' \cup strayed' : handle[m] # None
    BY <1>a, <1>g DEF Gone, Strays, None, Fds
  <2>2. ASSUME NEW m \in closed', current'[m] # None, NEW c \in Branches
        PROVE  taken[c].handle # handle[m] /\ \A r \in Fds : reg'[c][r] # handle[m]
    <3>1. m \in closed /\ m # n /\ m \in Fds
      BY <2>2, <1>c, <1>g, <1>f, Facts
    <3>2. current[m] # None /\ handle[m] # None
      BY <2>2, <3>1, <1>c DEF Gone
    <3> QED
      BY <3>1, <3>2, <1>b DEF Gone
  <2> QED
    BY <2>1, <2>2, <1>g DEF Gone
<1> QED
  BY <1>1, <1>2, <1>3

LEMMA DupOwned ==
    ASSUME EInv, NEW b \in Branches, NEW n \in Fds, Dup(b, n)
    PROVE  Owned' /\ HandOwned' /\ Gone'
<1> USE DEF EInv
<1>f. IInv /\ Live(b, n)
  BY DEF Dup
<1>a. /\ Translated(n) \in Fds /\ Translated(n) # next
      /\ reg[b][Translated(n)] = handle[n] /\ handle[n] \in Fds
      /\ \A s \in closed : current[s] # None => handle[s] # handle[n]
  BY <1>f, LiveOwned
<1>n. next \in Fds /\ next \in Nat
  BY <1>f, KindAssumption, Facts DEF Dup, Room, Pending, Fds
<1>b. \A c \in Branches, s \in Fds :
         reg'[c][s] = IF c = b /\ s = next THEN handle[n] ELSE reg[c][s]
  BY <1>f, <1>a, <1>n DEF Dup, IInv, TypeOK
<1>c. /\ \A s \in Fds : s # next => current'[s] = current[s] /\ handle'[s] = handle[s]
      /\ current[n] # None => current'[next] = next
      /\ handle'[next] = handle[n]
  BY <1>f, <1>a, <1>n DEF Dup, IInv, TypeOK
<1>d. \A c \in Branches : seen'[c] = IF c = b THEN seen[c] \cup {next} ELSE seen[c]
  BY <1>f, <1>n DEF Dup, IInv, TypeOK
<1>e. next \notin closed \cup strayed
  BY <1>n, <1>f, Facts DEF Gone
<1>g. UNCHANGED <<taken, phase, kind, closed>> /\ strayed' = strayed \cup CopyStrays(n)
  BY DEF Dup
<1>h. \A s \in closed \cup strayed : s \in Fds /\ handle'[s] = handle[s] /\ current'[s] = current[s]
  BY <1>c, <1>e, <1>f, Facts
<1>1. Owned'
  <2> SUFFICES ASSUME NEW c \in Branches, NEW r \in Fds, Runs(c), reg'[c][r] # None,
                      kind[reg'[c][r]] \in Rotating, \A s \in strayed' : handle'[s] # reg'[c][r]
               PROVE  \E m \in seen'[c] \ closed : handle'[m] = reg'[c][r] /\ current'[m] = r
    BY <1>g DEF Owned, Runs, Clean
  <2>1. CASE c = b /\ r = next
    <3>1. reg'[c][r] = handle[n]
      BY <2>1, <1>b
    <3>2. next \notin CopyStrays(n)
      BY <3>1, <1>c, <1>g
    <3>3. current[n] # None
      BY <3>1, <3>2, <1>f, CopyOwned
    <3> QED
      BY <2>1, <3>1, <3>3, <1>n, <1>c, <1>d, <1>e
  <2>2. CASE ~(c = b /\ r = next)
    <3>1. reg'[c][r] = reg[c][r]
      BY <2>2, <1>b
    <3>2. \A s \in strayed : handle[s] # reg[c][r]
      BY <3>1, <1>g, <1>h
    <3>3. PICK m \in seen[c] \ closed : handle[m] = reg[c][r] /\ current[m] = r
      BY <3>1, <3>2 DEF Owned, Clean
    <3>4. m # next /\ m \in Fds
      BY <3>3, <1>f, <1>n, Facts
    <3> QED
      BY <3>1, <3>3, <3>4, <1>c, <1>d
  <2> QED
    BY <2>1, <2>2
<1>2. HandOwned'
  BY <1>d, <1>g DEF HandOwned, Runs
<1>3. Gone'
  <2>1. \A m \in closed \cup strayed' : handle'[m] # None
    BY <1>a, <1>c, <1>g, <1>h DEF Gone, CopyStrays, None, Fds
  <2>2. ASSUME NEW m \in closed, current'[m] # None, NEW c \in Branches
        PROVE  taken[c].handle # handle'[m] /\ \A r \in Fds : reg'[c][r] # handle'[m]
    BY <2>2, <1>a, <1>b, <1>h DEF Gone
  <2> QED
    BY <2>1, <2>2, <1>g DEF Gone
<1> QED
  BY <1>1, <1>2, <1>3

LEMMA Dup2Owned ==
    ASSUME EInv, NEW b \in Branches, NEW n \in Fds, NEW m \in Fds, Dup2(b, n, m)
    PROVE  Owned' /\ HandOwned' /\ Gone'
<1> USE DEF EInv
<1>f. IInv /\ Live(b, n) /\ Live(b, m) /\ Ready(b) /\ n # m
  BY DEF Dup2, Live
<1>a. /\ Translated(n) \in Fds /\ reg[b][Translated(n)] = handle[n] /\ handle[n] \in Fds
      /\ \A s \in closed : current[s] # None => handle[s] # handle[n]
  BY <1>f, LiveOwned
<1>o. /\ Translated(m) \in Fds /\ Translated(m) # next
      /\ reg[b][Translated(m)] = handle[m] /\ handle[m] \in Fds
      /\ \A c \in Branches : taken[c] # Idle => taken[c].name # m
  BY <1>f, LiveOwned
<1>n. next \in Fds /\ next \in Nat
  BY <1>f, KindAssumption, Facts DEF Dup2, Room, Pending, Fds
<1>m. m # next /\ n # next
  BY <1>a, <1>o, <1>n, <1>f, Facts DEF Live
<1>b. \A c \in Branches, s \in Fds :
         reg'[c][s] = IF c = b /\ s = next THEN handle[n]
                      ELSE IF c = b /\ s = Translated(m) THEN None ELSE reg[c][s]
  BY <1>f, <1>a, <1>o, <1>n DEF Dup2, IInv, TypeOK
<1>c. /\ \A s \in Fds : s # next => handle'[s] = handle[s]
      /\ \A s \in Fds : s \notin {m, next} => current'[s] = current[s]
      /\ current'[m] = None
      /\ current[n] # None => current'[next] = next
      /\ handle'[next] = handle[n]
  BY <1>f, <1>a, <1>n, <1>m DEF Dup2, IInv, TypeOK
<1>d. \A c \in Branches : seen'[c] = IF c = b THEN seen[c] \cup {next} ELSE seen[c]
  BY <1>f, <1>n DEF Dup2, IInv, TypeOK
<1>e. next \notin closed \cup strayed
  BY <1>n, <1>f, Facts DEF Gone
<1>g. UNCHANGED <<taken, phase, kind>> /\ closed' = closed \cup {m}
      /\ strayed' = strayed \cup Strays(b, m, handle[m]) \cup CopyStrays(n)
  BY <1>o DEF Dup2
<1>h. \A s \in closed \cup strayed : s \in Fds /\ handle'[s] = handle[s]
  BY <1>c, <1>e, <1>f, Facts
<1>1. Owned'
  <2> SUFFICES ASSUME NEW c \in Branches, NEW r \in Fds, Runs(c), reg'[c][r] # None,
                      kind[reg'[c][r]] \in Rotating, \A s \in strayed' : handle'[s] # reg'[c][r]
               PROVE  \E w \in seen'[c] \ closed' : handle'[w] = reg'[c][r] /\ current'[w] = r
    BY <1>g DEF Owned, Runs, Clean
  <2>1. CASE c = b /\ r = next
    <3>1. reg'[c][r] = handle[n]
      BY <2>1, <1>b
    <3>2. next \notin CopyStrays(n)
      BY <3>1, <1>c, <1>g
    <3>3. current[n] # None
      BY <3>1, <3>2, <1>f, CopyOwned
    <3> QED
      BY <2>1, <3>1, <3>3, <1>n, <1>m, <1>c, <1>d, <1>e, <1>g
  <2>2. CASE ~(c = b /\ r = next)
    <3>1. reg'[c][r] = reg[c][r] /\ ~(c = b /\ r = Translated(m))
      BY <2>2, <1>b
    <3>2. \A s \in strayed : handle[s] # reg[c][r]
      BY <3>1, <1>g, <1>h
    <3>3. PICK w \in seen[c] \ closed : handle[w] = reg[c][r] /\ current[w] = r
      BY <3>1, <3>2 DEF Owned, Clean
    <3>4. w # next /\ w \in Fds
      BY <3>3, <1>f, <1>n, Facts
    <3>5. w # m
      <4> SUFFICES ASSUME w = m PROVE FALSE
        OBVIOUS
      <4>1. c # b /\ reg[c][r] = handle[m]
        BY <3>1, <3>3 DEF Translated, None, Fds
      <4>2. m \in strayed'
        BY <4>1, <1>f, <1>g, OthersSee
      <4> QED
        BY <3>1, <4>1, <4>2, <1>c, <1>m
    <3> QED
      BY <3>1, <3>3, <3>4, <3>5, <1>c, <1>d, <1>g
  <2> QED
    BY <2>1, <2>2
<1>2. HandOwned'
  BY <1>d, <1>o, <1>g DEF HandOwned, Runs
<1>3. Gone'
  <2>1. \A s \in closed' \cup strayed' : handle'[s] # None
    BY <1>a, <1>o, <1>c, <1>g, <1>h, <1>m DEF Gone, CopyStrays, Strays, None, Fds
  <2>2. ASSUME NEW s \in closed', current'[s] # None, NEW c \in Branches
        PROVE  taken[c].handle # handle'[s] /\ \A r \in Fds : reg'[c][r] # handle'[s]
    <3>1. s # m /\ s \in closed /\ s # next /\ s \in Fds
      BY <2>2, <1>c, <1>e, <1>g, <1>h
    <3>2. current[s] # None /\ handle'[s] = handle[s] /\ handle[s] # None
      BY <2>2, <3>1, <1>c DEF Gone
    <3> QED
      BY <3>1, <3>2, <1>a, <1>b DEF Gone
  <2> QED
    BY <2>1, <2>2, <1>g DEF Gone
<1> QED
  BY <1>1, <1>2, <1>3

LEMMA NextOwned == EInv /\ [Next]_vars => EInv'
<1> SUFFICES ASSUME EInv, [Next]_vars PROVE EInv'
  OBVIOUS
<1>i. IInv'
  BY NextKeeps DEF EInv
<1> SUFFICES Owned' /\ HandOwned' /\ Gone'
  BY <1>i DEF EInv
<1> DEFINE Goal == Owned' /\ HandOwned' /\ Gone'
<1>1. ASSUME NEW b \in Branches, Bind(b) \/ Connect(b) \/ Spawn(b) PROVE Goal
  <2>1. ASSUME NEW k \in {"direct", "stream", "child"}, Open(b, k) PROVE Goal
    BY <2>1, OpenOwned DEF Open
  <2> QED
    BY <1>1, <2>1 DEF Bind, Connect, Spawn
<1>2. ASSUME NEW b \in Branches, PipeOpen(b) PROVE Goal
  BY <1>2, PipeOpenOwned
<1>3. ASSUME NEW b \in Branches, NEW n \in Fds,
             Take(b, n) \/ Shutdown(b, n) \/ ShutdownLoses(b, n) \/ Kill(b, n)
      PROVE Goal
  BY <1>3, TakeOwned, RotateOwned, ShutdownLosesOwned DEF Shutdown, Kill
<1>4. ASSUME NEW b \in Branches, CallReturns(b) \/ StreamDropped(b) PROVE Goal
  BY <1>4, GiveBackOwned DEF CallReturns, StreamDropped, Awaits
<1>5. ASSUME NEW b \in Branches, Reaped(b) \/ WaitDropped(b) PROVE Goal
  BY <1>5, ChildEndsOwned
<1>6. ASSUME NEW b \in Branches, NEW n \in Fds, Dup(b, n) \/ Close(b, n) PROVE Goal
  BY <1>6, DupOwned, CloseOwned
<1>7. ASSUME NEW b \in Branches, NEW n \in Fds, NEW m \in Fds, Dup2(b, n, m) PROVE Goal
  BY <1>7, Dup2Owned
<1>8. ASSUME NEW b \in Branches, Replace(b) PROVE Goal
  BY <1>8, ReplaceOwned
<1>9. ASSUME OrphansGone \/ \E b \in Branches : OrphanEnds(b) PROVE Goal
  BY <1>9, OrphanOwned
<1>10. CASE Fork
  BY <1>10, ForkOwned
<1>11. CASE Join
  BY <1>11, MergeOwned DEF Join
<1>12. ASSUME NEW done \in SUBSET Children, DropFork(done) PROVE Goal
  BY <1>12, MergeOwned DEF DropFork
<1>13. CASE UNCHANGED vars
  BY <1>13 DEF vars, table, history, EInv, Owned, HandOwned, Gone, Runs, Clean
<1> QED
  BY <1>1, <1>2, <1>3, <1>4, <1>5, <1>6, <1>7, <1>8, <1>9, <1>10, <1>11, <1>12, <1>13 DEF Next

LEMMA InitOwned == Init => EInv
<1> SUFFICES ASSUME Init PROVE EInv
  OBVIOUS
<1>1. IInv
  BY InitHolds
<1>2. Owned /\ HandOwned /\ Gone
  BY DEF Init, Owned, HandOwned, Gone, NoHandles, Branches, Children
<1> QED
  BY <1>1, <1>2 DEF EInv

LEMMA InductiveOwned == Spec => []EInv
  BY InitOwned, NextOwned, PTL DEF Spec

\* As every entry has its own open name, and every open name its own entry or
\* the handle in hand, there are as many of the ones as of the others.
LEMMA OneToOne == EInv => EntriesMatchNames
<1> SUFFICES ASSUME EInv, phase = "alone", NEW h \in Fds, kind[h] \in Rotating,
                    NEW n0 \in seen[Root] \ closed, handle[n0] = h,
                    \A n \in strayed : handle[n] # h
             PROVE  Cardinality({r \in Fds : reg[Root][r] = h})
                      + Cardinality({b \in {Root} : taken[b].handle = h})
                    = Cardinality({n \in seen[Root] \ closed : handle[n] = h})
  BY DEF EntriesMatchNames
<1> DEFINE open == {n \in seen[Root] \ closed : handle[n] = h}
           entries == {r \in Fds : reg[Root][r] = h}
           inHand == {b \in {Root} : taken[b].handle = h}
<1>f. IInv /\ Root \in Branches /\ h # None
  BY DEF EInv, Branches, None, Fds
<1>1. \A n \in open : n \in Fds /\ Reachable(Root, n)
  BY <1>f, Facts DEF IInv, HandleReachable
<1>e. \A n \in open :
        \/ taken[Root].name = n /\ taken[Root].handle = h
        \/ current[n] # None /\ current[n] \in entries
  <2> TAKE n \in open
  <2>1. handle[n] = h /\ current[n] \in Fds \cup {None}
    BY <1>1, <1>f, Facts
  <2>2. CASE taken[Root] = [name |-> n, handle |-> handle[n]]
    BY <2>1, <2>2
  <2>3. CASE current[n] # None /\ reg[Root][current[n]] = handle[n]
    BY <2>1, <2>3
  <2> QED
    BY <1>1, <2>2, <2>3 DEF Reachable
<1>2. CASE taken[Root].handle = h
  <2>1. entries = {}
    BY <1>f, <1>2 DEF IInv, InHand, Idle
  <2>2. \A n \in open : taken[Root].name = n
    BY <1>e, <2>1
  <2>3. open = {n0} /\ inHand = {Root}
    BY <1>2, <2>2
  <2>4. Cardinality(entries) = 0 /\ Cardinality(inHand) = 1 /\ Cardinality(open) = 1
    BY <2>1, <2>3, FS_EmptySet, FS_Singleton
  <2> QED
    BY <2>4
<1>3. CASE taken[Root].handle # h
  <2> DEFINE f == [n \in open |-> current[n]]
  <2>1. inHand = {} /\ \A n \in open : current[n] \in entries
    BY <1>e, <1>3
  <2>2. \A r \in entries : \E n \in open : current[n] = r
    BY <1>f DEF EInv, Owned, Runs, Clean
  <2>3. \A n, m \in open : current[n] = current[m] => n = m
    BY <1>1, <2>1, <1>f, Facts DEF None, Fds
  <2>4. f \in Bijection(open, entries)
    <3>1. f \in [open -> entries]
      BY <2>1
    <3>2. f \in Injection(open, entries)
      BY <3>1, <2>3 DEF Injection, IsInjective
    <3>3. f \in Surjection(open, entries)
      BY <3>1, <2>2 DEF Surjection
    <3> QED
      BY <3>2, <3>3 DEF Bijection
  <2>5. IsFiniteSet(open)
    <3>1. open \subseteq 1 .. MaxFds /\ IsFiniteSet(1 .. MaxFds)
      BY <1>1, KindAssumption, FS_Interval DEF Fds
    <3> QED
      BY <3>1, FS_Subset
  <2>6. Cardinality(open) = Cardinality(entries) /\ Cardinality(open) \in Nat
    <3> HIDE DEF f, open, entries
    <3> QED
      BY <2>4, <2>5, FS_Bijection, FS_CardinalityType DEF ExistsBijection
  <2>7. Cardinality(inHand) = 0
    BY <2>1, FS_EmptySet
  <2> QED
    BY <2>6, <2>7
<1> QED
  BY <1>2, <1>3

\* When no branch is left, a stream or child that no branch has strayed with
\* has just as many registry entries as open names, whatever was called,
\* dropped, forked, joined and orphaned before: the one with a single name can
\* be taken again (Arc::get_mut).
THEOREM AccessComesBack == Spec => []EntriesMatchNames
  BY InductiveOwned, OneToOne, PTL
=============================================================================
