--------------------------- MODULE SourcesProofs ---------------------------
(***************************************************************************)
(* Proofs about the followed sources.                                      *)
(*                                                                         *)
(* About Sources, for every set of providers, every size of a page and     *)
(* every site: what is toasted of a source, that nothing within reach of a *)
(* page slips between two polls, and that the report of the catch-up tool  *)
(* is complete.                                                            *)
(*                                                                         *)
(* About SettingsPage, for every number of sources, labels and saves: the  *)
(* keys of the sources in the configuration are distinct and, undisturbed, *)
(* stay.                                                                   *)
(***************************************************************************)
EXTENDS Sources, SettingsPage, FiniteSetTheorems, SequenceTheorems, TLAPS

(* Of a finite set of numbers, some are its greatest and its least: a minimal one among the sets
   of those that exceed an element (or are exceeded by it) is empty. *)
LEMMA FiniteExtremes ==
  ASSUME NEW F \in SUBSET Int, IsFiniteSet(F), F # {}
  PROVE  /\ \E m \in F : \A x \in F : m >= x
         /\ \E m \in F : \A x \in F : m <= x
<1> DEFINE Above(x) == {y \in F : y > x}
           Below(x) == {y \in F : y < x}
<1>1. IsWellFoundedOn(StrictSubsetOrdering(F), FiniteSubsetsOf(F))
  BY FS_StrictSubsetOrderingWellFounded
<1>2. \A S \in SUBSET F : S \in FiniteSubsetsOf(F)
  BY FS_Subset DEF FiniteSubsetsOf
<1>3. PICK a \in F : \A x \in F : <<Above(x), Above(a)>> \notin StrictSubsetOrdering(F)
  <2> DEFINE T == {Above(x) : x \in F}
  <2>1. T \subseteq FiniteSubsetsOf(F) /\ T # {}
    BY <1>2
  <2>2. \E s \in T : \A r \in T : ~ (<<r, s>> \in StrictSubsetOrdering(F))
    <3> HIDE DEF T
    <3> QED BY <1>1, <2>1, WFMin
  <2> QED BY <2>2
<1>4. PICK b \in F : \A x \in F : <<Below(x), Below(b)>> \notin StrictSubsetOrdering(F)
  <2> DEFINE T == {Below(x) : x \in F}
  <2>1. T \subseteq FiniteSubsetsOf(F) /\ T # {}
    BY <1>2
  <2>2. \E s \in T : \A r \in T : ~ (<<r, s>> \in StrictSubsetOrdering(F))
    <3> HIDE DEF T
    <3> QED BY <1>1, <2>1, WFMin
  <2> QED BY <2>2
<1>5. ASSUME NEW x \in F, x > a PROVE FALSE
  <2>0. x \in Int /\ a \in Int /\ \A y \in F : y \in Int
    OBVIOUS
  <2>1. \A y \in F : y > x => y > a
    BY <1>5, <2>0
  <2>2. ~(x > x)
    BY <2>0
  <2>3. Above(x) \subseteq Above(a) /\ x \in Above(a) /\ x \notin Above(x)
    BY <1>5, <2>1, <2>2
  <2> QED BY <1>3, <2>3, <1>2 DEF StrictSubsetOrdering
<1>6. ASSUME NEW x \in F, x < b PROVE FALSE
  <2>0. x \in Int /\ b \in Int /\ \A y \in F : y \in Int
    OBVIOUS
  <2>1. \A y \in F : y < x => y < b
    BY <1>6, <2>0
  <2>2. ~(x < x)
    BY <2>0
  <2>3. Below(x) \subseteq Below(b) /\ x \in Below(b) /\ x \notin Below(x)
    BY <1>6, <2>1, <2>2
  <2> QED BY <1>4, <2>3, <1>2 DEF StrictSubsetOrdering
<1>7. a \in Int /\ b \in Int
  OBVIOUS
<1> QED BY <1>5, <1>6, <1>7

LEMMA MaxIsGreatest ==
  ASSUME NEW F \in SUBSET Int, IsFiniteSet(F), F # {}
  PROVE  Max(F) \in F /\ \A x \in F : Max(F) >= x
BY FiniteExtremes DEF Max

LEMMA MinIsLeast ==
  ASSUME NEW F \in SUBSET Int, IsFiniteSet(F), F # {}
  PROVE  Min(F) \in F /\ \A x \in F : Min(F) <= x
BY FiniteExtremes DEF Min

-----------------------------------------------------------------------------
(* The inductive invariant *)

Object == [class : Here.classes, thread : Nat, date : Nat, gone : BOOLEAN]

(* A reply names a thread of the site; but for forks, what is dated is dated in the order of
   its creation. *)
SiteSound ==
  /\ kind \in Kinds /\ now \in Nat /\ posts \in Seq(Object)
  /\ \A i \in DOMAIN posts :
       /\ posts[i].date <= now
       /\ posts[i].thread = 0 \/ (posts[i].thread \in DOMAIN posts /\ posts[posts[i].thread].thread = 0)
  /\ Here.id # "push" =>
       \A i, j \in DOMAIN posts : i < j /\ posts[i].date # 0 /\ posts[j].date # 0 => posts[i].date <= posts[j].date

(* The identifier the entry of version v has, or had. *)
Name(v) == IF Here.id = "push" THEN v ELSE Id(v[1])

(* Identifiers are of objects of the site; what was there when the source was primed is known
   and not after the watermark; what was made since the last poll is not known. *)
MemorySound ==
  /\ primed \in BOOLEAN /\ newest \in 0..now
  /\ ~primed => first = {} /\ announced = {}
  /\ \A s \in seen : s[1] \in DOMAIN posts /\ (Here.id = "push" => s[2] \in 0..now)
  /\ \A v \in first : v[1] \in DOMAIN posts /\ v[2] \in 0..newest /\ Name(v) \in seen
  /\ \A v \in fresh : v[1] \in DOMAIN posts /\ v = Version(v[1]) /\ Id(v[1]) \notin seen

ToolStates ==
  [step : {"off", "read", "judge", "written"}, since : Nat, cursor : Nat, read : SUBSET Nat, pages : Nat,
   warned : BOOLEAN, start : SUBSET Nat, judged : SUBSET Nat, unjudged : SUBSET Nat]

(* What the tool has read lies above its cursor, and holds all that was there at its start
   above the cursor; when it stops reading without a warning, all of the period; when it
   writes, each item of the period is in the report. *)
ToolSound ==
  /\ tool \in ToolStates
  /\ tool.step # "off" => kind = "rss" /\ tool.since >= 1
  /\ tool.read \cup tool.start \cup tool.judged \cup tool.unjudged \subseteq DOMAIN posts
  /\ tool.cursor # 0 => tool.cursor \in DOMAIN posts
  /\ \A i \in tool.read : tool.cursor # 0 /\ i >= tool.cursor
  /\ tool.step = "read" =>
       /\ ~tool.warned
       /\ \A i \in tool.start : posts[i].gone \/ i \in tool.read \/ tool.cursor = 0 \/ i < tool.cursor
  /\ tool.step \in {"judge", "written"} /\ ~tool.warned =>
       \A i \in tool.start : posts[i].gone \/ i \in tool.read \/ posts[i].date < tool.since
  /\ tool.step = "written" => Period \subseteq tool.judged \cup tool.unjudged

Inductive == SiteSound /\ MemorySound /\ ToolSound /\ NoBurst

LEMMA InitInductive == Init => Inductive
<1> SUFFICES ASSUME Init PROVE Inductive
  OBVIOUS
<1>1. posts = <<>> /\ posts \in Seq(Object) /\ DOMAIN posts = {}
  BY EmptySeq DEF Init
<1>2. SiteSound
  BY <1>1 DEF Init, SiteSound
<1>3. MemorySound
  <2>1. newest = 0 /\ now = 0 /\ primed = FALSE /\ seen = {} /\ first = {} /\ fresh = {} /\ announced = {}
    BY DEF Init
  <2>2. newest \in 0..now
    BY <2>1
  <2> QED BY <2>1, <2>2 DEF MemorySound
<1>4. ToolSound
  BY <1>1 DEF Init, ToolSound, ToolStates, Off
<1>5. NoBurst
  BY DEF Init, NoBurst
<1> QED BY <1>2, <1>3, <1>4, <1>5 DEF Inductive

(* What the numbers of the objects are. *)
LEMMA Numbers ==
  ASSUME SiteSound
  PROVE  /\ Len(posts) \in Nat /\ DOMAIN posts = 1..Len(posts) /\ DOMAIN posts \subseteq Nat
         /\ \A S \in SUBSET DOMAIN posts : IsFiniteSet(S)
         /\ \A i \in DOMAIN posts : posts[i] \in Object /\ posts[i].date \in 0..now
<1>1. posts \in Seq(Object) /\ Len(posts) \in Nat /\ DOMAIN posts = 1..Len(posts)
  BY LenProperties DEF SiteSound
<1>2. IsFiniteSet(DOMAIN posts)
  BY <1>1, FS_Interval
<1>3. \A i \in DOMAIN posts : posts[i] \in Object
  BY <1>1, ElementOfSeq
<1>4. \A i \in DOMAIN posts : posts[i].date \in 0..now
  BY <1>3 DEF SiteSound, Object
<1> QED BY <1>1, <1>2, <1>3, <1>4, FS_Subset

(* Dates of objects are finitely many numbers. *)
LEMMA DatesAreNumbers ==
  ASSUME SiteSound, NEW S \in SUBSET DOMAIN posts
  PROVE  Dates(S) \subseteq 0..now /\ Dates(S) \subseteq Int /\ IsFiniteSet(Dates(S)) /\ 0 \notin Dates(S)
<1>1. Dates(S) \subseteq 0..now
  BY Numbers DEF Dates
<1>2. IsFiniteSet(0..now) /\ 0..now \subseteq Int
  BY FS_Interval DEF SiteSound
<1>3. IsFiniteSet(Dates(S))
  BY <1>1, <1>2, FS_Subset
<1>4. 0 \notin Dates(S)
  BY DEF Dates
<1> QED BY <1>1, <1>2, <1>3, <1>4

LEMMA LatestIsGreatest ==
  ASSUME SiteSound, MemorySound, NEW S \in SUBSET DOMAIN posts
  PROVE  /\ Latest({newest} \cup Dates(S)) \in newest..now
         /\ \A i \in S : posts[i].date <= Latest({newest} \cup Dates(S))
<1> DEFINE F == {newest} \cup Dates(S)
<1>1. IsFiniteSet(F)
  BY DatesAreNumbers, FS_AddElement
<1>2. F \subseteq 0..now /\ F \subseteq Int /\ newest \in F
  BY DatesAreNumbers DEF MemorySound, SiteSound
<1>3. \A i \in S : posts[i].date = 0 \/ posts[i].date \in F
  BY DEF Dates
<1>4. \A i \in S : posts[i].date \in 0..now
  BY Numbers
<1>5. Latest(F) = Max(F)
  BY <1>2 DEF Latest
<1> HIDE DEF F
<1>6. Max(F) \in F /\ \A x \in F : Max(F) >= x
  BY <1>1, <1>2, MaxIsGreatest
<1>7. now \in Nat /\ newest \in 0..now /\ Max(F) \in 0..now
  BY <1>2, <1>6 DEF MemorySound, SiteSound
<1>8. Max(F) \in newest..now
  BY <1>2, <1>6, <1>7
<1>9. ASSUME NEW i \in S PROVE posts[i].date <= Max(F)
  <2>1. CASE posts[i].date = 0
    BY <1>7, <2>1
  <2>2. CASE posts[i].date \in F
    BY <1>4, <1>6, <1>7, <2>2
  <2> QED BY <1>3, <2>1, <2>2
<1> QED BY <1>5, <1>8, <1>9 DEF F

LEMMA HereStays == kind' = kind => Here' = Here
BY DEF Here

-----------------------------------------------------------------------------
(* The site *)

LEMMA PostInductive ==
  ASSUME Inductive, Post
  PROVE  Inductive'
<1> USE DEF Inductive
<1>0. PICK n \in Nat : n = Len(posts) + 1
  BY Numbers
<1>1. PICK class \in Here.classes, dated \in Here.dated,
           thread \in {0} \cup {i \in Standing : Here.replies > 0 /\ posts[i].thread = 0},
           date \in (IF Here.id = "push" THEN 1..now' ELSE {now'}) :
        posts' = Append(posts, [class |-> class, thread |-> thread, date |-> IF dated THEN date ELSE 0,
                                gone |-> FALSE])
  BY DEF Post
<1> DEFINE o == [class |-> class, thread |-> thread, date |-> IF dated THEN date ELSE 0, gone |-> FALSE]
<1>2. /\ kind' = kind /\ Here' = Here /\ now \in Nat /\ now' = now + 1 /\ now' \in Nat
      /\ UNCHANGED <<primed, seen, newest, tool, first, announced>>
  BY HereStays DEF Post, Tick, SiteSound
<1>3. thread \in Nat /\ (thread = 0 \/ (thread \in DOMAIN posts /\ posts[thread].thread = 0))
  BY Numbers DEF Standing
<1>4. o \in Object /\ o.date <= now' /\ o.date \in Nat
  BY <1>2, <1>3 DEF Object
<1>5. /\ posts' \in Seq(Object) /\ Len(posts') = n /\ DOMAIN posts' = DOMAIN posts \cup {n} /\ posts'[n] = o
      /\ \A i \in DOMAIN posts : posts'[i] = posts[i] /\ i < n /\ i # n
  <2>1. posts \in Seq(Object) /\ Len(posts) \in Nat /\ DOMAIN posts = 1..Len(posts)
    BY Numbers DEF SiteSound
  <2>2. posts' = Append(posts, o)
    BY <1>1
  <2> HIDE DEF o
  <2>3. /\ posts' \in Seq(Object) /\ Len(posts') = n /\ posts'[n] = o
        /\ \A i \in 1..Len(posts) : posts'[i] = posts[i]
    BY <1>0, <1>4, <2>1, <2>2, AppendProperties
  <2>4. DOMAIN posts' = 1..n
    BY <2>3, LenProperties
  <2> QED BY <1>0, <2>1, <2>3, <2>4
<1> HIDE DEF o
<1>6. SiteSound'
  <2>1. posts' \in Seq(Object')
    BY <1>2, <1>5 DEF Object
  <2>2. ASSUME NEW i \in DOMAIN posts'
        PROVE  /\ posts'[i].date <= now'
               /\ posts'[i].thread = 0 \/ (posts'[i].thread \in DOMAIN posts' /\ posts'[posts'[i].thread].thread = 0)
    <3>1. CASE i = n
      BY <1>3, <1>4, <1>5, <3>1 DEF o
    <3>2. CASE i \in DOMAIN posts
      <4>1. posts[i].date \in 0..now
        BY <3>2, Numbers
      <4> QED BY <1>2, <1>5, <3>2, <4>1 DEF SiteSound
    <3> QED BY <1>5, <3>1, <3>2
  <2>3. ASSUME Here.id # "push", NEW i \in DOMAIN posts', NEW j \in DOMAIN posts',
               i < j, posts'[i].date # 0, posts'[j].date # 0
        PROVE  posts'[i].date <= posts'[j].date
    <3>1. i \in DOMAIN posts
      BY <1>0, <1>5, <2>3, Numbers
    <3>2. CASE j = n
      <4>1. posts'[j].date = now'
        BY <1>5, <2>3, <3>2 DEF o
      <4> QED BY <2>2, <4>1
    <3>3. CASE j \in DOMAIN posts
      BY <1>5, <2>3, <3>1, <3>3 DEF SiteSound
    <3> QED BY <1>5, <3>2, <3>3
  <2> QED BY <1>2, <2>1, <2>2, <2>3 DEF SiteSound
<1>7. \A i \in DOMAIN posts : Version(i)' = Version(i) /\ Id(i)' = Id(i)
  BY <1>2, <1>5 DEF Version, Id
<1>8. MemorySound'
  <2>1. \A s \in seen : s[1] \in DOMAIN posts' /\ s[1] # n /\ (Here.id = "push" => s[2] \in 0..now')
    BY <1>2, <1>5 DEF MemorySound
  <2>2. \A v \in first : Name(v)' = Name(v)
    BY <1>2, <1>7 DEF MemorySound, Name
  <2>3. \A v \in fresh : v[1] \in DOMAIN posts' /\ v = Version(v[1])' /\ Id(v[1])' \notin seen
    BY <1>5, <1>7 DEF MemorySound
  <2>4. fresh' = fresh \cup {<<n, posts'[n].date>>}
    BY <1>5 DEF Post
  <2>5. Version(n)' = <<n, posts'[n].date>> /\ Id(n)'[1] = n
    BY DEF Version, Id
  <2>6. \A v \in fresh' : v[1] \in DOMAIN posts' /\ v = Version(v[1])' /\ Id(v[1])' \notin seen'
    BY <1>2, <1>5, <2>1, <2>3, <2>4, <2>5
  <2>7. \A v \in first' : v[1] \in DOMAIN posts' /\ v[2] \in 0..newest' /\ Name(v)' \in seen'
    BY <1>2, <1>5, <2>2 DEF MemorySound
  <2>8. newest' \in 0..now' /\ primed' \in BOOLEAN /\ (~primed' => first' = {} /\ announced' = {})
    BY <1>2 DEF MemorySound
  <2> QED BY <1>2, <2>1, <2>6, <2>7, <2>8 DEF MemorySound
<1>9. ToolSound'
  <2>1. /\ tool.read \subseteq DOMAIN posts /\ tool.start \subseteq DOMAIN posts
        /\ tool.judged \subseteq DOMAIN posts /\ tool.unjudged \subseteq DOMAIN posts
    BY DEF ToolSound
  <2>2. Period' = Period
    BY <1>2, <1>5, <2>1 DEF Period
  <2>3. /\ tool' \in ToolStates'
        /\ tool.read \cup tool.start \cup tool.judged \cup tool.unjudged \subseteq DOMAIN posts'
    BY <1>2, <1>5, <2>1 DEF ToolSound, ToolStates
  <2>4. \A i \in tool.start : posts'[i] = posts[i]
    BY <1>5, <2>1
  <2> QED BY <1>2, <1>5, <2>2, <2>3, <2>4 DEF ToolSound
<1>10. NoBurst'
  BY <1>2 DEF NoBurst
<1> QED BY <1>6, <1>8, <1>9, <1>10

(* A feed is not a listing of forks. *)
LEMMA FeedsAreNotPushed == kind = "rss" => Here.id # "push"
BY DEF Here, Provider, Rss

LEMMA PushInductive ==
  ASSUME Inductive, NEW i \in DOMAIN posts, Push(i)
  PROVE  Inductive'
<1> USE DEF Inductive
<1>1. /\ Here.id = "push" /\ kind' = kind /\ Here' = Here /\ now \in Nat /\ now' = now + 1 /\ now' \in Nat
      /\ UNCHANGED <<primed, seen, newest, tool, first, announced>>
  BY HereStays DEF Push, Tick, SiteSound
<1>2. posts \in Seq(Object) /\ posts' = [posts EXCEPT ![i].date = now']
  BY DEF Push, SiteSound
<1>3. posts[i] \in Object /\ [posts[i] EXCEPT !.date = now'] \in Object
  <2>1. posts[i] \in Object /\ now' \in Nat
    BY <1>1, Numbers
  <2> QED BY <2>1 DEF Object
<1>4. /\ posts' \in Seq(Object) /\ DOMAIN posts' = DOMAIN posts
      /\ posts'[i].date = now' /\ posts'[i].thread = posts[i].thread
      /\ \A j \in DOMAIN posts : j # i => posts'[j] = posts[j]
  <2>1. posts' = [posts EXCEPT ![i] = [posts[i] EXCEPT !.date = now']]
    BY <1>2
  <2>2. posts' \in Seq(Object) /\ Len(posts') = Len(posts)
    BY <1>2, <1>3, <2>1, ExceptSeq, Numbers
  <2> QED BY <1>3, <2>1, <2>2, Numbers DEF Object
<1>5. SiteSound'
  <2>1. posts' \in Seq(Object')
    BY <1>1, <1>4 DEF Object
  <2>2. ASSUME NEW j \in DOMAIN posts' PROVE posts'[j].date <= now' /\ posts'[j].thread = posts[j].thread
    BY <1>1, <1>4, Numbers
  <2> QED BY <1>1, <1>4, <2>1, <2>2 DEF SiteSound
<1>6. MemorySound'
  <2>1. \A v \in first : Name(v)' = Name(v)
    BY <1>1 DEF Name
  <2>2. \A j \in DOMAIN posts : j # i => Version(j)' = Version(j) /\ Id(j)' = Id(j)
    BY <1>1, <1>4 DEF Version, Id
  <2>3. \A s \in seen : s[2] # now' /\ s[2] \in 0..now'
    BY <1>1 DEF MemorySound
  <2>4. Version(i)' = <<i, now'>> /\ Id(i)' = <<i, now'>>
    BY <1>1, <1>4 DEF Version, Id
  <2>5. fresh' = (fresh \ {Version(i)}) \cup {<<i, now'>>}
    BY DEF Push
  <2>6. ASSUME NEW v \in fresh' PROVE v[1] \in DOMAIN posts' /\ v = Version(v[1])' /\ Id(v[1])' \notin seen'
    <3>1. CASE v = <<i, now'>>
      BY <1>1, <1>4, <2>3, <2>4, <3>1
    <3>2. CASE v \in fresh /\ v[1] # i
      BY <1>1, <1>4, <2>2, <3>2 DEF MemorySound
    <3>3. v = <<i, now'>> \/ (v \in fresh /\ v[1] # i)
      BY <2>5 DEF MemorySound
    <3> QED BY <3>1, <3>2, <3>3
  <2>7. \A v \in first' : v[1] \in DOMAIN posts' /\ v[2] \in 0..newest' /\ Name(v)' \in seen'
    BY <1>1, <1>4, <2>1 DEF MemorySound
  <2>8. newest' \in 0..now' /\ primed' \in BOOLEAN /\ (~primed' => first' = {} /\ announced' = {})
    BY <1>1 DEF MemorySound
  <2>9. \A s \in seen' : s[1] \in DOMAIN posts' /\ (Here'.id = "push" => s[2] \in 0..now')
    BY <1>1, <1>4, <2>3 DEF MemorySound
  <2> QED BY <2>6, <2>7, <2>8, <2>9 DEF MemorySound
<1>7. ToolSound'
  <2>1. tool.step = "off"
    BY <1>1, FeedsAreNotPushed DEF ToolSound
  <2>2. tool' \in ToolStates'
    BY <1>1 DEF ToolSound, ToolStates
  <2> QED BY <1>1, <1>4, <2>1, <2>2 DEF ToolSound
<1>8. NoBurst'
  BY <1>1 DEF NoBurst
<1> QED BY <1>5, <1>6, <1>7, <1>8

LEMMA DisappearInductive ==
  ASSUME Inductive, NEW i \in DOMAIN posts, Disappear(i)
  PROVE  Inductive'
<1> USE DEF Inductive
<1>1. kind' = kind /\ Here' = Here /\ UNCHANGED <<now, primed, seen, newest, first, fresh, announced, tool>>
  BY HereStays DEF Disappear, memory
<1>2. posts \in Seq(Object) /\ posts' = [posts EXCEPT ![i].gone = TRUE]
  BY DEF Disappear, SiteSound
<1>3. posts[i] \in Object /\ [posts[i] EXCEPT !.gone = TRUE] \in Object
  BY <1>2, Numbers DEF Object
<1>4. /\ posts' \in Seq(Object) /\ DOMAIN posts' = DOMAIN posts
      /\ \A j \in DOMAIN posts : /\ posts'[j].date = posts[j].date /\ posts'[j].thread = posts[j].thread
                                 /\ posts'[j].class = posts[j].class
                                 /\ posts[j].gone => posts'[j].gone
  <2>1. posts' = [posts EXCEPT ![i] = [posts[i] EXCEPT !.gone = TRUE]]
    BY <1>2
  <2>2. posts' \in Seq(Object) /\ Len(posts') = Len(posts)
    BY <1>2, <1>3, <2>1, ExceptSeq, Numbers
  <2> QED BY <1>3, <2>1, <2>2, Numbers DEF Object
<1>5. SiteSound'
  <2>1. posts' \in Seq(Object')
    BY <1>1, <1>4 DEF Object
  <2>2. \A j \in DOMAIN posts' : /\ posts'[j].date <= now'
                                 /\ \/ posts'[j].thread = 0
                                    \/ posts'[j].thread \in DOMAIN posts' /\ posts'[posts'[j].thread].thread = 0
    BY <1>1, <1>4 DEF SiteSound
  <2> QED BY <1>1, <1>4, <2>1, <2>2 DEF SiteSound
<1>6. MemorySound'
  <2>1. \A j \in DOMAIN posts : Version(j)' = Version(j) /\ Id(j)' = Id(j)
    BY <1>1, <1>4 DEF Version, Id
  <2>2. \A v \in first : Name(v)' = Name(v)
    BY <1>1, <2>1 DEF Name, MemorySound
  <2> QED BY <1>1, <1>4, <2>1, <2>2 DEF MemorySound
<1>7. ToolSound'
  <2>1. Period' = Period
    BY <1>1, <1>4 DEF Period, ToolSound
  <2>2. tool' \in ToolStates'
    BY <1>1 DEF ToolSound, ToolStates
  <2>3. \A j \in tool.start : j \in DOMAIN posts
    BY DEF ToolSound
  <2> QED BY <1>1, <1>4, <2>1, <2>2, <2>3 DEF ToolSound
<1>8. NoBurst'
  BY <1>1 DEF NoBurst
<1> QED BY <1>5, <1>6, <1>7, <1>8

-----------------------------------------------------------------------------
(* A poll *)

LEMMA EntriesAreObjects == Entries \subseteq DOMAIN posts
<1>1. \A S, n : Newest(S, n) \subseteq S
  BY DEF Newest
<1>2. Standing \subseteq DOMAIN posts
  BY DEF Standing
<1>3. \A t : {i \in Standing : posts[i].thread = t} \subseteq DOMAIN posts
  BY <1>2
<1>4. Window \subseteq DOMAIN posts
  <2> DEFINE top == Newest({i \in Standing : posts[i].thread = 0}, Width)
             shown(t) == Newest({i \in Standing : posts[i].thread = t}, Here.replies)
  <2>1. Window = top \cup UNION {shown(t) : t \in top}
    BY DEF Window
  <2>2. top \subseteq DOMAIN posts /\ \A t : shown(t) \subseteq DOMAIN posts
    BY <1>1, <1>3
  <2> HIDE DEF top, shown
  <2> QED BY <2>1, <2>2
<1> QED BY <1>4 DEF Entries

LEMMA PollInductive ==
  ASSUME Inductive, Poll
  PROVE  Inductive'
<1> USE DEF Inductive
<1>1. UNCHANGED <<kind, posts, now, tool, faults>> /\ Here' = Here
  BY HereStays DEF Poll, site
<1>2. \A i : Version(i)' = Version(i) /\ Id(i)' = Id(i) /\ Name(i)' = Name(i)
  BY <1>1 DEF Version, Id, Name
<1>3. newest' \in newest..now /\ \A i \in Entries : posts[i].date <= newest'
  BY EntriesAreObjects, LatestIsGreatest DEF Poll
<1>4. now \in Nat /\ newest \in 0..now /\ newest' \in 0..now
  BY <1>3 DEF MemorySound, SiteSound
<1>5. seen' = seen \cup {Id(i) : i \in Entries} /\ fresh' = {}
  BY DEF Poll
<1>6. ASSUME NEW i \in Entries
      PROVE  /\ i \in DOMAIN posts /\ Id(i)[1] = i /\ (Here.id = "push" => Id(i)[2] \in 0..now)
             /\ Version(i)[1] = i /\ Version(i)[2] \in 0..newest' /\ Name(Version(i)) = Id(i)
  <2>1. i \in DOMAIN posts /\ posts[i].date \in 0..now /\ posts[i].date <= newest'
    BY <1>3, EntriesAreObjects, Numbers
  <2>2. posts[i].date \in 0..newest'
    BY <1>4, <2>1
  <2> QED BY <2>1, <2>2 DEF Id, Version, Name
<1>7. SiteSound'
  BY <1>1 DEF SiteSound, Object
<1>8. MemorySound'
  <2>1. \A s \in seen' : s[1] \in DOMAIN posts' /\ (Here'.id = "push" => s[2] \in 0..now')
    BY <1>1, <1>5, <1>6 DEF MemorySound
  <2>2. \A v \in first : v[1] \in DOMAIN posts' /\ v[2] \in 0..newest' /\ Name(v)' \in seen'
    BY <1>1, <1>2, <1>3, <1>4, <1>5 DEF MemorySound
  <2>3. \A v \in first' \ first : \E i \in Entries : v = Version(i)
    BY DEF Poll
  <2>4. \A v \in first' : v[1] \in DOMAIN posts' /\ v[2] \in 0..newest' /\ Name(v)' \in seen'
    BY <1>1, <1>2, <1>5, <1>6, <2>2, <2>3
  <2>5. primed' = TRUE
    BY DEF Poll, MemorySound
  <2> QED BY <1>1, <1>4, <1>5, <2>1, <2>4, <2>5 DEF MemorySound
<1>9. ToolSound'
  BY <1>1 DEF ToolSound, ToolStates, Period
<1>10. NoBurst'
  <2>1. CASE ~primed
    BY <2>1 DEF Poll, MemorySound, NoBurst
  <2>2. CASE primed
    <3>1. /\ first' = first
          /\ announced' = announced \cup {Version(i) : i \in {j \in Entries : Id(j) \notin seen /\ ~Absorbed(j)}}
      BY <2>2 DEF Poll
    <3>2. ASSUME NEW i \in Entries, Id(i) \notin seen PROVE Version(i) \notin first
      BY <1>6, <3>2 DEF MemorySound
    <3>3. ASSUME NEW i \in Entries, ~Absorbed(i), NEW w \in first, Version(i)[2] # 0, w[2] # 0
          PROVE  Version(i)[2] >= w[2] - Grace
      <4>1. w[2] \in 0..newest /\ newest \in 0..now /\ posts[i].date \in 0..now /\ Grace \in Nat /\ now \in Nat
        BY <1>4, <1>6, Numbers, SourcesAssumption DEF MemorySound
      <4>2. Version(i)[2] = posts[i].date
        BY DEF Version
      <4> QED BY <3>3, <4>1, <4>2 DEF Absorbed
    <3>4. announced' \cap first' = {}
      BY <3>1, <3>2 DEF NoBurst
    <3>5. ASSUME NEW v \in announced', NEW w \in first', v[2] # 0, w[2] # 0, v[1] < w[1], Here.id # "push"
          PROVE  v[2] >= w[2] - Grace
      BY <3>1, <3>3, <3>5 DEF NoBurst
    <3> QED BY <1>1, <3>4, <3>5 DEF NoBurst
  <2> QED BY <2>1, <2>2
<1> QED BY <1>7, <1>8, <1>9, <1>10

-----------------------------------------------------------------------------
(* The catch-up tool *)

(* A page holds the newest of what it is asked for: the greatest first of all, and with each
   of its items those that are newer. *)
LEMMA PageHolds ==
  ASSUME SiteSound, NEW S \in SUBSET DOMAIN posts, NEW n \in Nat \ {0}
  PROVE  /\ Newest(S, n) \subseteq S
         /\ S # {} => Newest(S, n) # {}
         /\ \A i \in Newest(S, n) : \A j \in S : j >= i => j \in Newest(S, n)
<1> DEFINE Above(i) == {j \in S : j > i}
<1>1. IsFiniteSet(S) /\ S \subseteq Int
  BY Numbers
<1>2. \A i : Above(i) \subseteq S /\ IsFiniteSet(Above(i)) /\ Cardinality(Above(i)) \in Nat
  BY <1>1, FS_Subset, FS_CardinalityType
<1>3. ASSUME S # {} PROVE Newest(S, n) # {}
  <2>1. PICK m \in S : \A x \in S : m >= x
    BY <1>1, <1>3, FiniteExtremes
  <2>2. m \in Int /\ \A x \in S : x \in Int
    BY <1>1
  <2>3. Above(m) = {}
    BY <2>1, <2>2
  <2>4. Cardinality(Above(m)) < n
    BY <2>3, FS_EmptySet
  <2> QED BY <2>4 DEF Newest
<1>4. ASSUME NEW i \in Newest(S, n), NEW j \in S, j >= i PROVE j \in Newest(S, n)
  <2>1. i \in S /\ Cardinality(Above(i)) < n
    BY DEF Newest
  <2>2. i \in Int /\ j \in Int /\ \A x \in S : x \in Int
    BY <1>1, <2>1
  <2>3. \A x \in S : x > j => x > i
    BY <1>4, <2>2
  <2>4. Above(j) \subseteq Above(i)
    BY <2>3
  <2>5. Cardinality(Above(j)) <= Cardinality(Above(i))
    <3> HIDE DEF Above
    <3> QED BY <1>2, <2>4, FS_Subset
  <2>6. Cardinality(Above(j)) < n
    <3> HIDE DEF Above
    <3> QED BY <1>2, <2>1, <2>5
  <2> QED BY <2>6 DEF Newest
<1> QED BY <1>3, <1>4 DEF Newest

(* What a step of the tool leaves alone. *)
LEMMA OnlyTheTool ==
  ASSUME Inductive, UNCHANGED <<site, memory>>
  PROVE  /\ SiteSound' /\ MemorySound' /\ NoBurst' /\ Here' = Here
         /\ \A i : Version(i)' = Version(i) /\ Id(i)' = Id(i)
<1>1. UNCHANGED <<kind, posts, now, primed, seen, newest, first, fresh, announced>> /\ Here' = Here
  BY HereStays DEF site, memory
<1>2. \A i : Version(i)' = Version(i) /\ Id(i)' = Id(i) /\ Name(i)' = Name(i)
  BY <1>1 DEF Version, Id, Name
<1>3. SiteSound'
  BY <1>1 DEF Inductive, SiteSound, Object
<1>4. MemorySound'
  BY <1>1, <1>2 DEF Inductive, MemorySound
<1>5. NoBurst'
  BY <1>1 DEF Inductive, NoBurst
<1> QED BY <1>1, <1>2, <1>3, <1>4, <1>5

LEMMA OffIsSound == SiteSound' /\ tool' = Off => ToolSound'
BY DEF ToolSound, Off, ToolStates

LEMMA ToolStartsSound ==
  ASSUME Inductive, ToolStarts
  PROVE  ToolSound'
<1> USE DEF Inductive
<1>1. PICK since \in 1..now : tool' = [Off EXCEPT !.step = "read", !.since = since, !.start = Standing]
  BY DEF ToolStarts
<1>2. kind = "rss" /\ UNCHANGED <<kind, posts, now>> /\ since \in Nat /\ since >= 1
  BY DEF ToolStarts, site, SiteSound
<1>3. Standing \subseteq DOMAIN posts /\ Standing \in SUBSET Nat
  BY Numbers DEF Standing
<1>4. tool' = [step |-> "read", since |-> since, cursor |-> 0, read |-> {}, pages |-> 0, warned |-> FALSE,
               start |-> Standing, judged |-> {}, unjudged |-> {}]
  BY <1>1 DEF Off
<1>5. tool' \in ToolStates
  BY <1>2, <1>3, <1>4 DEF ToolStates
<1> QED BY <1>2, <1>3, <1>4, <1>5 DEF ToolSound, ToolStates

LEMMA ReadPageSound ==
  ASSUME Inductive, ReadPage
  PROVE  ToolSound'
<1> USE DEF Inductive
<1> DEFINE asked == {i \in Standing : tool.cursor # 0 => i < tool.cursor}
           new   == Page \ tool.read
           last  == tool.pages + 1 = MaxPages
           wanted(i) == i \in tool.start /\ ~posts[i].gone /\ i \notin tool.read
<1>1. tool.step = "read" /\ UNCHANGED <<kind, posts, now>> /\ kind = "rss" /\ tool.since >= 1
  BY DEF ReadPage, site, ToolSound
<1>2. asked \in SUBSET DOMAIN posts /\ Page = Newest(asked, PageSize) /\ PageSize \in Nat \ {0}
  BY SourcesAssumption DEF Page, Standing
<1>3. /\ Page \subseteq asked
      /\ asked # {} => Page # {}
      /\ \A i \in Page : \A j \in asked : j >= i => j \in Page
  <2> HIDE DEF asked
  <2> QED BY <1>2, PageHolds
<1>4. /\ tool \in ToolStates /\ tool.since \in Nat /\ tool.cursor \in Nat /\ tool.pages \in Nat
      /\ tool.read \subseteq DOMAIN posts /\ tool.start \subseteq DOMAIN posts
      /\ tool.judged \subseteq DOMAIN posts /\ tool.unjudged \subseteq DOMAIN posts
      /\ DOMAIN posts \subseteq Nat /\ DOMAIN posts = 1..Len(posts) /\ Len(posts) \in Nat
  BY Numbers DEF ToolSound, ToolStates
<1>5. \A i : wanted(i) => i \in asked
  BY <1>1, <1>4 DEF ToolSound, Standing
<1>6. CASE new = {}
  <2>1. asked = {}
    <3> SUFFICES ASSUME asked # {} PROVE FALSE
      OBVIOUS
    <3> HIDE DEF asked
    <3>1. PICK i \in Page : i \in asked
      BY <1>3
    <3> USE DEF asked
    <3>2. i \in tool.read /\ i \in DOMAIN posts
      BY <1>2, <1>6, <3>1
    <3>3. tool.cursor # 0 /\ i >= tool.cursor
      BY <3>2 DEF ToolSound
    <3>4. i < tool.cursor
      BY <3>1, <3>3
    <3> QED BY <1>4, <3>2, <3>3, <3>4
  <2>2. \A i : ~wanted(i)
    BY <1>5, <2>1
  <2>3. tool' = [tool EXCEPT !.step = "judge"]
    BY <1>6 DEF ReadPage
  <2>4. /\ tool' \in ToolStates /\ tool'.step = "judge" /\ tool'.since = tool.since /\ tool'.read = tool.read
        /\ tool'.cursor = tool.cursor /\ tool'.start = tool.start
        /\ tool'.judged = tool.judged /\ tool'.unjudged = tool.unjudged
    BY <1>4, <2>3 DEF ToolStates
  <2>5. \A i \in tool.start : posts[i].gone \/ i \in tool.read
    BY <2>2
  <2>6. ToolStates' = ToolStates
    BY DEF ToolStates
  <2> QED BY <1>1, <2>4, <2>5, <2>6 DEF ToolSound
<1>7. CASE new # {}
  <2>1. new \subseteq asked /\ new \subseteq DOMAIN posts /\ IsFiniteSet(new) /\ new \subseteq Int
    <3> HIDE DEF asked
    <3>1. new \subseteq asked
      BY <1>3
    <3>2. asked \subseteq DOMAIN posts
      BY <1>2
    <3> HIDE DEF new
    <3>3. new \subseteq DOMAIN posts
      BY <3>1, <3>2
    <3> QED BY <1>4, <3>1, <3>3, Numbers
  <2>2. Min(new) \in new /\ \A i \in new : Min(new) <= i
    <3> HIDE DEF new
    <3> QED BY <1>7, <2>1, MinIsLeast
  <2> DEFINE lo == Min(new)
             stops == PeriodCovered(new) \/ last
  <2>3. tool' = [tool EXCEPT !.read = @ \cup new, !.pages = @ + 1, !.cursor = lo,
                             !.step = IF stops THEN "judge" ELSE "read",
                             !.warned = ~PeriodCovered(new) /\ last]
    BY <1>7 DEF ReadPage
  <2>4. lo \in DOMAIN posts /\ lo \in Nat /\ lo # 0 /\ lo \in asked /\ lo \in Page
    BY <1>4, <2>1, <2>2
  <2> HIDE DEF new, lo, last
  <2>5. tool'.read = tool.read \cup new /\ tool'.cursor = lo /\ tool'.pages = tool.pages + 1
    BY <1>4, <2>3 DEF ToolStates
  <2>6. /\ tool'.start = tool.start /\ tool'.since = tool.since
        /\ tool'.judged = tool.judged /\ tool'.unjudged = tool.unjudged
    BY <1>4, <2>3 DEF ToolStates
  <2>7. /\ tool'.step = IF stops THEN "judge" ELSE "read"
        /\ tool'.warned = (~PeriodCovered(new) /\ last)
    BY <1>4, <2>3 DEF ToolStates
  <2>8. tool' \in ToolStates
    <3>1. tool.read \cup new \in SUBSET Nat /\ lo \in Nat /\ tool.pages + 1 \in Nat
      BY <1>4, <2>1, <2>4
    <3>2. (~PeriodCovered(new) /\ last) \in BOOLEAN
      OBVIOUS
    <3>3. (IF stops THEN "judge" ELSE "read") \in {"off", "read", "judge", "written"}
      OBVIOUS
    <3> HIDE DEF stops
    <3> QED BY <1>4, <2>3, <3>1, <3>2, <3>3 DEF ToolStates
  <2>9. \A i \in tool.read \cup new : i >= lo
    <3>1. \A i \in new : i >= lo
      BY <1>4, <2>1, <2>2, <2>4 DEF lo
    <3>2. ASSUME NEW i \in tool.read PROVE i >= lo
      <4>1. tool.cursor # 0 /\ i >= tool.cursor /\ i \in Nat
        BY <1>4 DEF ToolSound
      <4>2. lo < tool.cursor
        BY <2>4, <4>1 DEF asked
      <4> QED BY <1>4, <2>4, <4>1, <4>2
    <3> QED BY <3>1, <3>2
  <2>10. ASSUME NEW i, wanted(i), i \notin new PROVE i \in DOMAIN posts /\ i < lo
    <3>1. i \in asked /\ i \notin Page
      BY <1>5, <2>10 DEF new
    <3>2. i \in DOMAIN posts /\ i \in Nat /\ ~(i >= lo)
      BY <1>2, <1>3, <1>4, <2>4, <3>1
    <3> QED BY <2>4, <3>2
  <2>11. ASSUME PeriodCovered(new), NEW i, wanted(i), i \notin new PROVE posts[i].date < tool.since
    <3>1. Min(Dates(new)) \in Dates(new) /\ Min(Dates(new)) < tool.since
      BY <2>1, <2>11, DatesAreNumbers, MinIsLeast DEF PeriodCovered
    <3>2. PICK j \in new : posts[j].date # 0 /\ posts[j].date < tool.since
      BY <3>1 DEF Dates
    <3>3. i \in DOMAIN posts /\ j \in DOMAIN posts /\ i < j
      BY <1>4, <2>1, <2>2, <2>4, <2>10, <2>11 DEF lo
    <3>4. posts[i].date \in 0..now /\ posts[j].date \in 0..now /\ now \in Nat
      BY <3>3, Numbers DEF SiteSound
    <3>5. posts[i].date = 0 \/ posts[i].date <= posts[j].date
      BY <1>1, <3>2, <3>3, FeedsAreNotPushed DEF SiteSound
    <3> QED BY <1>1, <1>4, <3>2, <3>4, <3>5
  <2>12. tool'.step = "read" => /\ ~tool'.warned
                                /\ \A i \in tool'.start : posts[i].gone \/ i \in tool'.read \/ i < tool'.cursor
    BY <2>5, <2>6, <2>7, <2>10
  <2>13. tool'.step = "judge" /\ ~tool'.warned =>
           \A i \in tool'.start : posts[i].gone \/ i \in tool'.read \/ posts[i].date < tool'.since
    BY <2>5, <2>6, <2>7, <2>11
  <2>14. tool'.step \in {"read", "judge"} /\ ToolStates' = ToolStates
    BY <2>7 DEF ToolStates
  <2>15. tool'.read \cup tool'.start \cup tool'.judged \cup tool'.unjudged \subseteq DOMAIN posts
    BY <1>4, <2>1, <2>5, <2>6
  <2>16. tool'.cursor \in DOMAIN posts /\ \A i \in tool'.read : tool'.cursor # 0 /\ i >= tool'.cursor
    BY <2>4, <2>5, <2>9
  <2>17. tool'.since >= 1 /\ kind' = "rss" /\ posts' = posts
    BY <1>1, <2>6
  <2> HIDE DEF stops, wanted, asked
  <2> QED BY <2>8, <2>12, <2>13, <2>14, <2>15, <2>16, <2>17 DEF ToolSound
<1> QED BY <1>6, <1>7

LEMMA PageRefusedSound ==
  ASSUME Inductive, PageRefused
  PROVE  ToolSound'
<1> USE DEF Inductive
<1>1. UNCHANGED <<kind, posts, now>> /\ tool.step = "read" /\ tool \in ToolStates /\ ToolStates' = ToolStates
  BY DEF PageRefused, site, ToolSound, ToolStates
<1>2. CASE tool.pages = 0
  <2>1. SiteSound'
    BY OnlyTheTool DEF PageRefused
  <2> QED BY <1>2, <2>1, OffIsSound DEF PageRefused
<1>3. CASE tool.pages # 0
  <2>1. tool' = [tool EXCEPT !.step = "judge", !.warned = TRUE]
    BY <1>3 DEF PageRefused
  <2>2. /\ tool' \in ToolStates /\ tool'.step = "judge" /\ tool'.warned /\ tool'.since = tool.since
        /\ tool'.read = tool.read /\ tool'.cursor = tool.cursor /\ tool'.start = tool.start
        /\ tool'.judged = tool.judged /\ tool'.unjudged = tool.unjudged
    BY <1>1, <2>1 DEF ToolStates
  <2> QED BY <1>1, <2>2 DEF ToolSound
<1> QED BY <1>2, <1>3

LEMMA JudgeSound ==
  ASSUME Inductive, Judge
  PROVE  ToolSound'
<1> USE DEF Inductive
<1> DEFINE rest == Period \ tool.judged
<1>1. /\ UNCHANGED <<kind, posts, now>> /\ tool.step = "judge"
      /\ tool \in ToolStates /\ ToolStates' = ToolStates
      /\ tool.judged \subseteq DOMAIN posts /\ DOMAIN posts \subseteq Nat
  BY Numbers DEF Judge, site, ToolSound, ToolStates
<1>2. rest \subseteq DOMAIN posts /\ rest \subseteq Int /\ IsFiniteSet(rest) /\ rest \in SUBSET Nat
  BY <1>1, Numbers DEF Period, ToolSound
<1>3. CASE rest = {}
  <2>1. tool' = [tool EXCEPT !.step = "written"]
    BY <1>3 DEF Judge
  <2>2. /\ tool' \in ToolStates /\ tool'.step = "written"
        /\ tool'.warned = tool.warned /\ tool'.since = tool.since
        /\ tool'.read = tool.read /\ tool'.cursor = tool.cursor /\ tool'.start = tool.start
        /\ tool'.judged = tool.judged /\ tool'.unjudged = tool.unjudged
    BY <1>1, <2>1 DEF ToolStates
  <2>3. Period' = Period
    BY <1>1, <2>2 DEF Period
  <2>4. Period' \subseteq tool'.judged \cup tool'.unjudged
    BY <1>3, <2>2, <2>3
  <2> QED BY <1>1, <2>2, <2>4 DEF ToolSound
<1>4. CASE rest # {}
  <2>1. \/ tool' = [tool EXCEPT !.judged = @ \cup {Max(rest)}]
        \/ tool' = [tool EXCEPT !.unjudged = rest, !.step = "written"]
    BY <1>4 DEF Judge
  <2>2. Max(rest) \in rest
    <3> HIDE DEF rest
    <3> QED BY <1>2, <1>4, MaxIsGreatest
  <2>3. CASE tool' = [tool EXCEPT !.judged = @ \cup {Max(rest)}]
    <3>1. tool.judged \cup {Max(rest)} \in SUBSET Nat /\ tool.judged \cup {Max(rest)} \subseteq DOMAIN posts
      BY <1>1, <1>2, <2>2
    <3> HIDE DEF rest
    <3>2. /\ tool' \in ToolStates /\ tool'.step = "judge"
          /\ tool'.warned = tool.warned /\ tool'.since = tool.since
          /\ tool'.read = tool.read /\ tool'.cursor = tool.cursor /\ tool'.start = tool.start
          /\ tool'.judged = tool.judged \cup {Max(rest)} /\ tool'.unjudged = tool.unjudged
      BY <1>1, <2>3, <3>1 DEF ToolStates
    <3> QED BY <1>1, <3>1, <3>2 DEF ToolSound
  <2>4. CASE tool' = [tool EXCEPT !.unjudged = rest, !.step = "written"]
    <3> HIDE DEF rest
    <3>1. /\ tool' \in ToolStates /\ tool'.step = "written"
          /\ tool'.warned = tool.warned /\ tool'.since = tool.since
          /\ tool'.read = tool.read /\ tool'.cursor = tool.cursor /\ tool'.start = tool.start
          /\ tool'.judged = tool.judged /\ tool'.unjudged = rest
      BY <1>1, <1>2, <2>4 DEF ToolStates
    <3>2. Period' = Period
      BY <1>1, <3>1 DEF Period
    <3>3. Period' \subseteq tool'.judged \cup tool'.unjudged
      BY <3>1, <3>2 DEF rest
    <3> QED BY <1>1, <1>2, <3>1, <3>3 DEF ToolSound
  <2> QED BY <2>1, <2>3, <2>4
<1> QED BY <1>3, <1>4

-----------------------------------------------------------------------------
LEMMA NextInductive == Inductive /\ [Next]_vars => Inductive'
<1> SUFFICES ASSUME Inductive, [Next]_vars PROVE Inductive'
  OBVIOUS
<1>1. CASE Post
  BY <1>1, PostInductive
<1>2. CASE Poll
  BY <1>2, PollInductive
<1>3. CASE ToolStarts
  BY <1>3, OnlyTheTool, ToolStartsSound DEF ToolStarts, Inductive
<1>4. CASE ReadPage
  BY <1>4, OnlyTheTool, ReadPageSound DEF ReadPage, Inductive
<1>5. CASE PageRefused
  BY <1>5, OnlyTheTool, PageRefusedSound DEF PageRefused, Inductive
<1>6. CASE Judge
  BY <1>6, OnlyTheTool, JudgeSound DEF Judge, Inductive
<1>7. CASE JudgeBreaks
  BY <1>7, OnlyTheTool, OffIsSound DEF JudgeBreaks, Inductive
<1>8. ASSUME NEW i \in DOMAIN posts, Push(i) \/ Disappear(i) PROVE Inductive'
  BY <1>8, PushInductive, DisappearInductive
<1>9. CASE UNCHANGED <<site, memory, tool>>
  <2>1. SiteSound' /\ MemorySound' /\ NoBurst'
    BY <1>9, OnlyTheTool
  <2>2. UNCHANGED <<kind, posts, now, tool>>
    BY <1>9 DEF site
  <2>3. ToolSound'
    BY <2>2 DEF Inductive, ToolSound, ToolStates, Period
  <2> QED BY <2>1, <2>3 DEF Inductive
<1>10. ASSUME NEW why \in Here.raises, PollRaises(why) PROVE UNCHANGED <<site, memory, tool>>
  BY <1>10 DEF PollRaises
<1>11. UNCHANGED vars => UNCHANGED <<site, memory, tool>>
  BY DEF vars
<1> QED BY <1>1, <1>2, <1>3, <1>4, <1>5, <1>6, <1>7, <1>8, <1>9, <1>10, <1>11 DEF Next

(* The inductive invariant holds in every state. *)
THEOREM InductiveHolds == Spec => []Inductive
BY InitInductive, NextInductive, PTL DEF Spec

(* What was there when the source was primed is never toasted, nor is what is older than it,
   whatever the provider, the page and what disappears of the site. *)
THEOREM SourceInvariantHolds == Spec => []SourceInvariant
<1>1. Inductive => SourceInvariant
  <2> SUFFICES ASSUME Inductive PROVE TypeOK
    BY DEF Inductive, SourceInvariant
  <2>1. \A i \in DOMAIN posts : posts[i].class \in Here.classes /\ posts[i].date \in 0..now
    BY Numbers DEF Inductive, Object
  <2>2. newest \in 0..now /\ {primed, tool.warned} \subseteq BOOLEAN
    BY DEF Inductive, MemorySound, ToolSound, ToolStates
  <2>3. tool.read \cup tool.judged \cup tool.unjudged \subseteq DOMAIN posts
    BY DEF Inductive, ToolSound
  <2> QED BY <2>1, <2>2, <2>3 DEF TypeOK
<1> QED BY InductiveHolds, <1>1, PTL

(* The report of the catch-up tool holds all of the period that was there when it started and
   still stands, unless it warned: paging by the oldest item read misses nothing of a listing
   that grows at its top and loses items. *)
THEOREM CatchUpComplete == Spec => []CatchUpIsComplete
<1>1. Inductive => CatchUpIsComplete
  <2> SUFFICES ASSUME Inductive, tool.step = "written", ~tool.warned, NEW i \in tool.start,
                      posts[i].date >= tool.since, ~posts[i].gone
               PROVE  i \in tool.judged \cup tool.unjudged
    BY DEF CatchUpIsComplete
  <2>1. i \in DOMAIN posts /\ tool.since \in Nat /\ posts[i].date \in Nat
    BY Numbers DEF Inductive, ToolSound, ToolStates, Object
  <2>2. i \in tool.read
    BY <2>1 DEF Inductive, ToolSound
  <2>3. i \in Period
    BY <2>2 DEF Period
  <2> QED BY <2>3 DEF Inductive, ToolSound
<1> QED BY InductiveHolds, <1>1, PTL

(* What is in the reach of a page is in the answer. *)
LEMMA WithinReach ==
  ASSUME SiteSound, NEW i \in Standing, InReach(i)
  PROVE  i \in Window
<1> DEFINE Of(t) == {j \in Standing : posts[j].thread = t}
           AtLeast(k, t) == {j \in Standing : j >= k /\ posts[j].thread = t}
           Over(k, t) == {j \in Of(t) : j > k}
           top == Newest(Of(0), Width)
           shown(t) == Newest(Of(t), Here.replies)
<1>1. Window = top \cup UNION {shown(t) : t \in top}
  BY DEF Window
<1>2. Standing \subseteq DOMAIN posts /\ DOMAIN posts \subseteq Nat
  BY Numbers DEF Standing
<1>3. ASSUME NEW t, NEW k \in Of(t)
      PROVE  /\ Cardinality(Over(k, t)) \in Nat
             /\ Cardinality(AtLeast(k, t)) = Cardinality(Over(k, t)) + 1
  <2>1. Over(k, t) \subseteq DOMAIN posts /\ k \notin Over(k, t)
    BY <1>2
  <2>2. AtLeast(k, t) = Over(k, t) \cup {k}
    BY <1>2
  <2>3. IsFiniteSet(Over(k, t))
    BY <2>1, Numbers
  <2> HIDE DEF Over, AtLeast
  <2> QED BY <2>1, <2>2, <2>3, FS_AddElement, FS_CardinalityType
<1>4. ASSUME NEW t, NEW k \in Of(t), NEW n, n \in Nat, Cardinality(AtLeast(k, t)) <= n
      PROVE  k \in Newest(Of(t), n)
  <2>1. Cardinality(Over(k, t)) < n
    <3> HIDE DEF Over, AtLeast, Of
    <3> QED BY <1>3, <1>4
  <2> QED BY <2>1 DEF Newest
<1>5. Width \in Nat /\ Here.replies \in Nat
  BY SourcesAssumption DEF SiteSound, Here, Provider, Rss, GithubIssues, GithubComments, GithubForks,
     GithubDiscussion, GithubSponsors, YoutubeComments
<1>6. CASE posts[i].thread = 0
  <2>1. Cardinality(AtLeast(i, 0)) <= Width /\ i \in Of(0)
    BY <1>6 DEF InReach
  <2>2. i \in top
    <3> HIDE DEF Of, AtLeast, Over
    <3> QED BY <1>4, <1>5, <2>1
  <2> QED BY <1>1, <2>2
<1>7. CASE posts[i].thread # 0
  <2> DEFINE t == posts[i].thread
  <2>1. t \in DOMAIN posts /\ posts[t].thread = 0
    BY <1>2, <1>7 DEF SiteSound
  <2>2. /\ ~posts[t].gone /\ Cardinality(AtLeast(t, 0)) <= Width
        /\ Cardinality(AtLeast(i, t)) <= Here.replies
    BY <1>7 DEF InReach
  <2>3. t \in Of(0) /\ i \in Of(t)
    BY <2>1, <2>2 DEF Standing
  <2>4. t \in top /\ i \in shown(t)
    <3> HIDE DEF Of, AtLeast, Over, t
    <3> QED BY <1>4, <1>5, <2>2, <2>3
  <2> QED BY <1>1, <2>4
<1> QED BY <1>6, <1>7

(* Nothing within reach of a page slips between two polls: it is toasted, unless it is dated
   before the watermark. *)
THEOREM NewPostsAnnounced == Spec => NewPostsAreAnnounced
<1>1. ASSUME Inductive, [Next]_vars, Polled, NEW v \in Due
      PROVE  v \in announced' \/ Absorbed(v[1])
  <2>1. Poll
    <3>1. ASSUME Post \/ (\E i \in DOMAIN posts : Push(i)) PROVE fresh' # {}
      BY <3>1 DEF Post, Push
    <3>2. ASSUME UNCHANGED vars \/ ToolStarts \/ ReadPage \/ PageRefused \/ Judge \/ JudgeBreaks
                 \/ (\E i \in DOMAIN posts : Disappear(i)) \/ (\E why \in Here.raises : PollRaises(why))
          PROVE  fresh' = fresh
      BY <3>2 DEF vars, ToolStarts, ReadPage, PageRefused, Judge, JudgeBreaks, Disappear, PollRaises, memory
    <3> QED BY <1>1, <3>1, <3>2 DEF Polled, Next
  <2>2. v \in fresh /\ v[1] \in Standing /\ posts[v[1]].class \notin Here.left_out /\ InReach(v[1])
    BY <1>1 DEF Due, Inductive, MemorySound, Standing
  <2>3. v[1] \in Entries
    BY <1>1, <2>2, WithinReach DEF Inductive, Entries
  <2>4. v = Version(v[1]) /\ Id(v[1]) \notin seen
    BY <1>1, <2>2 DEF Inductive, MemorySound
  <2>5. announced' = announced \cup {Version(i) : i \in {j \in Entries : Id(j) \notin seen /\ ~Absorbed(j)}}
    BY <1>1, <2>1 DEF Poll, Polled
  <2> QED BY <2>3, <2>4, <2>5
<1>2. Inductive /\ [Next]_vars => [Polled => \A v \in Due : v \in announced' \/ Absorbed(v[1])]_vars
  BY <1>1
<1> QED BY InductiveHolds, <1>2, PTL DEF Spec, NewPostsAreAnnounced

-----------------------------------------------------------------------------
(* The settings page: sequences *)

LEMMA IntervalEnds ==
  ASSUME NEW m \in Nat, NEW n \in Nat, 1..m = 1..n
  PROVE  m = n
<1>1. \A i \in Nat \ {0} : i <= m <=> i <= n
  OBVIOUS
<1> QED BY <1>1, m = 0 \/ m \in Nat \ {0}, n = 0 \/ n \in Nat \ {0}

(* A function on 1..n is a sequence. *)
LEMMA FunctionIsSequence ==
  ASSUME NEW S, NEW n \in Nat, NEW f \in [1..n -> S]
  PROVE  f \in Seq(S) /\ Len(f) = n /\ DOMAIN f = 1..n
<1>1. f = [i \in 1..n |-> f[i]] /\ \A i \in 1..n : f[i] \in S
  OBVIOUS
<1>2. [i \in 1..n |-> f[i]] \in Seq(S)
  BY <1>1
<1>3. f \in Seq(S)
  BY <1>1, <1>2
<1>4. DOMAIN f = 1..n
  OBVIOUS
<1>5. Len(f) \in Nat /\ DOMAIN f = 1..Len(f)
  BY <1>3, LenProperties
<1>6. Len(f) = n
  BY <1>4, <1>5, IntervalEnds
<1> QED BY <1>3, <1>4, <1>6

-----------------------------------------------------------------------------
(* The settings page: rows with a text *)

Kept(rows) == {k \in DOMAIN rows : rows[k].label # NoLabel}

(* Among the rows with a text, the one of rank i has i - 1 others before it. *)
LEMMA RankIsAPlace ==
  ASSUME NEW rows \in Seq(Row)
  PROVE  /\ IsFiniteSet(Kept(rows)) /\ Cardinality(Kept(rows)) \in Nat
         /\ Cardinality(Kept(rows)) <= Len(rows)
         /\ \A k \in Kept(rows) : Rank(rows, k) \in 1..Cardinality(Kept(rows))
         /\ \A j, k \in Kept(rows) : Rank(rows, j) = Rank(rows, k) => j = k
<1> DEFINE upto(k) == {j \in 1..k : rows[j].label # NoLabel}
<1>1. Len(rows) \in Nat /\ DOMAIN rows = 1..Len(rows)
  BY LenProperties
<1>2. IsFiniteSet(1..Len(rows)) /\ Cardinality(1..Len(rows)) = Len(rows)
  BY <1>1, FS_Interval
<1>3. IsFiniteSet(Kept(rows)) /\ Cardinality(Kept(rows)) <= Len(rows)
  BY <1>1, <1>2, FS_Subset DEF Kept
<1>4. Cardinality(Kept(rows)) \in Nat
  BY <1>3, FS_CardinalityType
<1>5. ASSUME NEW k \in Kept(rows)
      PROVE  /\ k \in 1..Len(rows) /\ upto(k) \in SUBSET Kept(rows) /\ k \in upto(k)
             /\ IsFiniteSet(upto(k)) /\ Rank(rows, k) = Cardinality(upto(k))
             /\ Rank(rows, k) \in Nat /\ Rank(rows, k) <= Cardinality(Kept(rows)) /\ Rank(rows, k) >= 1
  <2>1. k \in 1..Len(rows) /\ rows[k].label # NoLabel
    BY <1>1 DEF Kept
  <2>2. \A j \in 1..k : j \in DOMAIN rows
    BY <1>1, <2>1
  <2>3. upto(k) \in SUBSET Kept(rows)
    BY <2>2 DEF Kept
  <2>4. k \in upto(k)
    BY <1>1, <2>1
  <2>5. IsFiniteSet(upto(k)) /\ Cardinality(upto(k)) <= Cardinality(Kept(rows))
    BY <1>3, <2>3, FS_Subset
  <2>6. Cardinality(upto(k)) \in Nat /\ Cardinality(upto(k)) # 0
    BY <2>4, <2>5, FS_CardinalityType, FS_EmptySet
  <2>7. Rank(rows, k) = Cardinality(upto(k))
    BY DEF Rank
  <2> HIDE DEF upto
  <2> QED BY <2>1, <2>3, <2>4, <2>5, <2>6, <2>7
<1>6. ASSUME NEW j \in Kept(rows), NEW k \in Kept(rows), j < k PROVE Rank(rows, j) < Rank(rows, k)
  <2>0. j \in Nat /\ k \in Nat
    <3>1. j \in 1..Len(rows) /\ k \in 1..Len(rows)
      BY <1>5
    <3> QED BY <1>1, <3>1
  <2>1. upto(j) \in SUBSET upto(k) /\ k \notin upto(j)
    BY <1>6, <2>0
  <2>2. Cardinality(upto(j)) <= Cardinality(upto(k)) /\ Cardinality(upto(j)) # Cardinality(upto(k))
    <3>1. k \in upto(k) /\ IsFiniteSet(upto(k))
      BY <1>5
    <3> HIDE DEF upto
    <3> QED BY <2>1, <3>1, FS_Subset
  <2>3. /\ Rank(rows, j) = Cardinality(upto(j)) /\ Rank(rows, k) = Cardinality(upto(k))
        /\ Rank(rows, j) \in Nat /\ Rank(rows, k) \in Nat
    BY <1>5
  <2> HIDE DEF upto
  <2> QED BY <2>2, <2>3
<1>7. ASSUME NEW j \in Kept(rows), NEW k \in Kept(rows), Rank(rows, j) = Rank(rows, k) PROVE j = k
  <2>1. j \in Nat /\ k \in Nat /\ Rank(rows, j) \in Nat /\ Rank(rows, k) \in Nat
    <3>1. j \in 1..Len(rows) /\ k \in 1..Len(rows)
      BY <1>5
    <3>2. Rank(rows, j) \in Nat /\ Rank(rows, k) \in Nat
      BY <1>5
    <3> QED BY <1>1, <3>1, <3>2
  <2>2. ~(j < k) /\ ~(k < j)
    BY <1>6, <1>7, <2>1
  <2> QED BY <2>1, <2>2
<1>8. \A k \in Kept(rows) : Rank(rows, k) \in 1..Cardinality(Kept(rows))
  <2>1. \A k \in Kept(rows) : /\ Rank(rows, k) \in Nat /\ Rank(rows, k) >= 1
                                /\ Rank(rows, k) <= Cardinality(Kept(rows))
    BY <1>5
  <2> QED BY <1>4, <2>1
<1> QED BY <1>3, <1>4, <1>7, <1>8

(* Filled holds each row with a text at its rank, and nothing else. *)
LEMMA FilledHolds ==
  ASSUME NEW rows \in Seq(Row)
  PROVE  /\ Filled(rows) \in Seq(Row) /\ Len(Filled(rows)) <= Len(rows)
         /\ DOMAIN Filled(rows) = 1..Cardinality(Kept(rows))
         /\ \A i \in DOMAIN Filled(rows) :
              \E k \in Kept(rows) : Rank(rows, k) = i /\ Filled(rows)[i] = rows[k]
         /\ \A k \in Kept(rows) :
              Rank(rows, k) \in DOMAIN Filled(rows) /\ Filled(rows)[Rank(rows, k)] = rows[k]
<1> DEFINE N == Cardinality(Kept(rows))
           rank == [k \in Kept(rows) |-> Rank(rows, k)]
           place(i) == CHOOSE k \in Kept(rows) : Rank(rows, k) = i
<1>1. /\ IsFiniteSet(Kept(rows)) /\ N \in Nat /\ N <= Len(rows)
      /\ \A k \in Kept(rows) : Rank(rows, k) \in 1..N
      /\ \A j, k \in Kept(rows) : Rank(rows, j) = Rank(rows, k) => j = k
  BY RankIsAPlace
<1>2. rank \in Injection(Kept(rows), 1..N)
  <2> HIDE DEF N
  <2> QED BY <1>1 DEF Injection, IsInjective
<1>3. rank \in Surjection(Kept(rows), 1..N)
  <2>1. IsFiniteSet(1..N) /\ Cardinality(1..N) = N
    <3> HIDE DEF N
    <3> QED BY <1>1, FS_Interval
  <2> HIDE DEF rank
  <2> QED BY <1>2, <2>1, FS_Injection
<1>4. \A i \in 1..N : \E k \in Kept(rows) : Rank(rows, k) = i
  <2> HIDE DEF N
  <2> QED BY <1>3 DEF Surjection
<1>5. \A i \in 1..N : place(i) \in Kept(rows) /\ Rank(rows, place(i)) = i
  <2> HIDE DEF N
  <2> QED BY <1>4
<1>6. Filled(rows) = [i \in 1..N |-> rows[place(i)]]
  BY DEF Filled, Kept
<1>7. \A k \in Kept(rows) : k \in DOMAIN rows /\ rows[k] \in Row
  BY LenProperties, ElementOfSeq DEF Kept
<1> HIDE DEF N, place, rank
<1>8. Filled(rows) \in Seq(Row) /\ Len(Filled(rows)) = N /\ DOMAIN Filled(rows) = 1..N
  <2>1. \A i \in 1..N : rows[place(i)] \in Row
    BY <1>5, <1>7
  <2> QED BY <1>1, <1>6, <2>1, FunctionIsSequence
<1>9. \A i \in DOMAIN Filled(rows) :
        \E k \in Kept(rows) : Rank(rows, k) = i /\ Filled(rows)[i] = rows[k]
  BY <1>5, <1>6, <1>8
<1>10. \A k \in Kept(rows) :
         Rank(rows, k) \in DOMAIN Filled(rows) /\ Filled(rows)[Rank(rows, k)] = rows[k]
  <2> SUFFICES ASSUME NEW k \in Kept(rows)
               PROVE  Rank(rows, k) \in DOMAIN Filled(rows) /\ Filled(rows)[Rank(rows, k)] = rows[k]
    OBVIOUS
  <2>1. Rank(rows, k) \in 1..N
    BY <1>1
  <2>2. place(Rank(rows, k)) = k
    BY <1>1, <1>5, <2>1
  <2> QED BY <1>6, <1>8, <2>1, <2>2
<1> QED BY <1>1, <1>8, <1>9, <1>10 DEF N

-----------------------------------------------------------------------------
(* The settings page: keys *)

LEMMA SettingsBounds == Cardinality(Sources) \in Nat
BY SettingsPageAssumption, FS_CardinalityType

(* The first n keys of a list are n at most. *)
LEMMA TakenIsSmall ==
  ASSUME NEW n \in Nat, NEW D, NEW keys \in [D -> Keys], 1..n \subseteq D
  PROVE  LET taken == {keys[j] : j \in 1..n}
         IN  taken \in SUBSET Keys /\ IsFiniteSet(taken) /\ Cardinality(taken) <= n
<1> DEFINE taken == {keys[j] : j \in 1..n}
           f == [j \in 1..n |-> keys[j]]
<1>1. f \in Surjection(1..n, taken)
  BY DEF Surjection
<1>2. IsFiniteSet(1..n) /\ Cardinality(1..n) = n
  BY FS_Interval
<1>3. taken \in SUBSET Keys
  OBVIOUS
<1>4. IsFiniteSet(taken) /\ Cardinality(taken) <= n
  <2> HIDE DEF f, taken
  <2> QED BY <1>1, <1>2, FS_Surjection
<1> QED BY <1>3, <1>4

(* slugify finds a key that is free among fewer keys than there are sources. *)
LEMMA FreeKeyIsFree ==
  ASSUME NEW s \in Slugs, NEW taken \in SUBSET Keys, IsFiniteSet(taken),
         Cardinality(taken) < Cardinality(Sources)
  PROVE  /\ FreeKey(s, taken) \in Keys /\ FreeKey(s, taken) \notin taken
         /\ FreeKey(s, taken)[1] = s
<1> DEFINE N == Cardinality(Sources)
           Free == {n \in 1..N : <<s, n>> \notin taken}
           First(n) == <<s, n>> \notin taken /\ \A m \in 1..n-1 : <<s, m>> \in taken
<1>1. N \in Nat /\ IsFiniteSet(1..N) /\ Cardinality(1..N) = N
  BY SettingsBounds, FS_Interval
<1>2. Free # {}
  <2> SUFFICES ASSUME Free = {} PROVE FALSE
    OBVIOUS
  <2> DEFINE f == [n \in 1..N |-> <<s, n>>]
  <2>1. f \in [1..N -> taken]
    OBVIOUS
  <2>2. \A i, j \in 1..N : f[i] = f[j] => i = j
    OBVIOUS
  <2>3. Cardinality(taken) < Cardinality(1..N)
    BY <1>1
  <2> HIDE DEF f, N
  <2> QED BY <1>1, <2>1, <2>2, <2>3, FS_PigeonHole
<1>3. Free \in SUBSET Int /\ IsFiniteSet(Free)
  <2>1. Free \in SUBSET (1..N) /\ Free \in SUBSET Int
    BY <1>1
  <2> HIDE DEF N, Free
  <2> QED BY <1>1, <2>1, FS_Subset
<1>4. PICK n \in Free : \A m \in Free : n <= m
  <2> HIDE DEF Free
  <2> QED BY <1>2, <1>3, FiniteExtremes
<1>5. n \in 1..N /\ <<s, n>> \notin taken
  OBVIOUS
<1>6. \A m \in 1..n-1 : <<s, m>> \in taken
  <2> SUFFICES ASSUME NEW m \in 1..n-1 PROVE <<s, m>> \in taken
    OBVIOUS
  <2>1. m \in 1..N /\ ~(n <= m)
    BY <1>1, <1>5
  <2> QED BY <1>4, <2>1
<1>7. First(n)
  BY <1>5, <1>6
<1>8. (CHOOSE i \in 1..N : First(i)) \in 1..N /\ First(CHOOSE i \in 1..N : First(i))
  <2> HIDE DEF First, N
  <2> QED BY <1>5, <1>7
<1> DEFINE c == CHOOSE i \in 1..N : First(i)
<1>9. FreeKey(s, taken) = <<s, c>>
  BY DEF FreeKey
<1>10. <<s, c>> \notin taken /\ c \in 1..N /\ \A m \in 1..c-1 : <<s, m>> \in taken
  BY <1>8
<1> HIDE DEF c, N
<1>11. <<s, c>> \in Keys
  BY <1>10 DEF Keys, N
<1> QED BY <1>9, <1>10, <1>11

(* A row is given a key that no earlier row has. *)
LEMMA KeyForIsFree ==
  ASSUME NEW row \in Row, row.label # NoLabel, NEW taken \in SUBSET Keys, IsFiniteSet(taken),
         Cardinality(taken) < Cardinality(Sources)
  PROVE  KeyFor(row, taken) \in Keys /\ KeyFor(row, taken) \notin taken
<1>1. row.label \in Slugs /\ row.key \in Keys \cup {NoKey}
  BY DEF Row
<1>2. FreeKey(row.label, taken) \in Keys /\ FreeKey(row.label, taken) \notin taken
  BY <1>1, FreeKeyIsFree
<1> QED BY <1>1, <1>2 DEF KeyFor

(* There are names for any rows but more rows than sources: the longest prefix that can be named
   is the whole. *)
LEMMA NamesExist ==
  ASSUME NEW rows \in Seq(Row), \A i \in DOMAIN rows : rows[i].label # NoLabel,
         Len(rows) <= Cardinality(Sources)
  PROVE  \E keys \in [DOMAIN rows -> Keys] : NamedInOrder(rows, keys)
<1> DEFINE L == Len(rows)
           Named(n, keys) == \A i \in 1..n : keys[i] = KeyFor(rows[i], {keys[j] : j \in 1..i-1})
           Lengths == {n \in 0..L : \E keys \in [1..n -> Keys] : Named(n, keys)}
<1>1. L \in Nat /\ DOMAIN rows = 1..L
  BY LenProperties
<1>2. 0 \in Lengths
  <2>1. [i \in 1..0 |-> i] \in [1..0 -> Keys] /\ Named(0, [i \in 1..0 |-> i]) /\ 0 \in 0..L
    BY <1>1
  <2> QED BY <2>1
<1>3. Lengths \in SUBSET Int /\ IsFiniteSet(Lengths)
  <2>1. Lengths \in SUBSET (0..L) /\ Lengths \in SUBSET Int
    BY <1>1
  <2>2. IsFiniteSet(0..L)
    BY <1>1, FS_Interval
  <2> HIDE DEF Lengths, L
  <2> QED BY <2>1, <2>2, FS_Subset
<1>4. PICK n \in Lengths : \A m \in Lengths : n >= m
  <2> HIDE DEF Lengths
  <2> QED BY <1>2, <1>3, FiniteExtremes
<1>5. n \in 0..L
  OBVIOUS
<1>6. PICK keys \in [1..n -> Keys] : Named(n, keys)
  OBVIOUS
<1>7. CASE n = L
  <2>1. keys \in [DOMAIN rows -> Keys] /\ DOMAIN rows = 1..n
    <3> HIDE DEF Lengths, Named
    <3> QED BY <1>1, <1>7
  <2>2. NamedInOrder(rows, keys)
    <3>1. Named(n, keys)
      BY <1>6
    <3> QED BY <2>1, <3>1 DEF NamedInOrder
  <2> QED BY <2>1, <2>2
<1>8. CASE n # L
  <2> DEFINE taken == {keys[j] : j \in 1..n}
             k == KeyFor(rows[n + 1], taken)
             more == [j \in 1..n+1 |-> IF j <= n THEN keys[j] ELSE k]
  <2>0. n \in Nat /\ n < L /\ n + 1 \in 1..L /\ n + 1 \in 0..L
    <3> HIDE DEF Lengths, Named, taken, k, more, L
    <3>1. n \in Nat /\ n <= L
      BY <1>1, <1>5
    <3>2. n < L
      BY <1>1, <1>8, <3>1
    <3> QED BY <1>1, <3>1, <3>2
  <2>1. taken \in SUBSET Keys /\ IsFiniteSet(taken) /\ Cardinality(taken) <= n
    BY <2>0, TakenIsSmall
  <2>2. Cardinality(taken) < Cardinality(Sources)
    <3>1. Cardinality(taken) \in Nat
      <4> HIDE DEF taken
      <4> QED BY <2>1, FS_CardinalityType
    <3> HIDE DEF taken
    <3> QED BY <1>1, <2>0, <2>1, <3>1, SettingsBounds
  <2>3. k \in Keys
    <3>1. rows[n + 1] \in Row /\ rows[n + 1].label # NoLabel
      BY <1>1, <2>0, ElementOfSeq
    <3> HIDE DEF taken
    <3> QED BY <2>1, <2>2, <3>1, KeyForIsFree
  <2>4. more \in [1..n+1 -> Keys]
    <3> HIDE DEF k
    <3>1. \A j \in 1..n+1 : j <= n => j \in 1..n
      BY <2>0
    <3> QED BY <2>3, <3>1
  <2>5. \A j \in 1..n : more[j] = keys[j]
    BY <2>0
  <2>6. more[n + 1] = k
    BY <2>0
  <2>7. \A i \in 1..n+1 : {more[j] : j \in 1..i-1} = {keys[j] : j \in 1..i-1}
    <3> SUFFICES ASSUME NEW i \in 1..n+1
                 PROVE  {more[j] : j \in 1..i-1} = {keys[j] : j \in 1..i-1}
      OBVIOUS
    <3>1. \A j \in 1..i-1 : j \in 1..n
      BY <2>0
    <3>2. \A j \in 1..i-1 : more[j] = keys[j]
      BY <2>5, <3>1
    <3> HIDE DEF more
    <3> QED BY <3>2
  <2>8. Named(n + 1, more)
    <3> SUFFICES ASSUME NEW i \in 1..n+1
                 PROVE  more[i] = KeyFor(rows[i], {more[j] : j \in 1..i-1})
      OBVIOUS
    <3>1. {more[j] : j \in 1..i-1} = {keys[j] : j \in 1..i-1}
      BY <2>7
    <3>2. CASE i \in 1..n
      <4>1. keys[i] = KeyFor(rows[i], {keys[j] : j \in 1..i-1})
        BY <1>6, <3>2
      <4>2. more[i] = keys[i]
        BY <2>5, <3>2
      <4> HIDE DEF more
      <4> QED BY <3>1, <4>1, <4>2
    <3>3. CASE i = n + 1
      <4>1. i - 1 = n
        BY <2>0, <3>3
      <4>2. {more[j] : j \in 1..i-1} = taken
        BY <3>1, <4>1
      <4> HIDE DEF more, taken
      <4> QED BY <2>6, <3>3, <4>2
    <3> QED BY <2>0, <3>2, <3>3
  <2>9. n + 1 \in Lengths
    <3> HIDE DEF more, Named
    <3> QED BY <2>0, <2>4, <2>8
  <2>10. ~(n >= n + 1)
    BY <2>0
  <2> HIDE DEF Lengths
  <2> QED BY <1>4, <2>9, <2>10
<1> QED BY <1>7, <1>8

-----------------------------------------------------------------------------
(* The settings page: the inductive invariant *)

(* No source has two rows. *)
DistinctSources(rows) == \A j, k \in DOMAIN rows : rows[j].source = rows[k].source => j = k

(* The table, the file and each request have one row of a source at most. *)
OneRowEach ==
  /\ DistinctSources(table) /\ DistinctSources(config)
  /\ \A n \in Requests : DistinctSources(request[n].rows)

(* A request that waits will have the answer that the table would have, and one that was served
   has had it: it is the file. *)
Expected(r, rows, feeds) ==
  /\ r.step = "sent" => build_feeds_from_rows(r.rows) = build_feeds_from_rows(rows)
  /\ r.step = "served" => r.feeds = build_feeds_from_rows(rows) /\ feeds = build_feeds_from_rows(rows)

(* A row whose source is in the file has its key. *)
KeysAgree(rows, feeds) ==
  \A k \in DOMAIN rows, j \in DOMAIN feeds : feeds[j].source = rows[k].source => feeds[j].key = rows[k].key

(* What holds until something disturbs a save. *)
Orderly ==
  /\ \A n \in Requests : Expected(request[n], table, config)
  /\ (\A n \in Requests : request[n].step # "served") => KeysAgree(table, config)

PageInductive == TableInvariant /\ OneRowEach /\ (~disturbed => Orderly)

-----------------------------------------------------------------------------
(* The settings page: what the server makes of the rows *)

(* Rows of different sources are not more than the sources. *)
LEMMA RowsFit ==
  ASSUME NEW rows \in Seq(Row), DistinctSources(rows)
  PROVE  Len(rows) <= Cardinality(Sources)
<1> DEFINE f == [k \in 1..Len(rows) |-> rows[k].source]
<1>1. Len(rows) \in Nat /\ DOMAIN rows = 1..Len(rows)
  BY LenProperties
<1>2. \A k \in 1..Len(rows) : rows[k].source \in Sources
  <2>1. \A k \in 1..Len(rows) : rows[k] \in Row
    BY ElementOfSeq
  <2> QED BY <2>1 DEF Row
<1>3. f \in Injection(1..Len(rows), Sources)
  <2>1. f \in [1..Len(rows) -> Sources]
    BY <1>2
  <2>2. \A j, k \in 1..Len(rows) : f[j] = f[k] => j = k
    BY <1>1 DEF DistinctSources
  <2> HIDE DEF f
  <2> QED BY <2>1, <2>2 DEF Injection, IsInjective
<1>4. Cardinality(1..Len(rows)) <= Cardinality(Sources)
  <2> HIDE DEF f
  <2> QED BY <1>3, FS_Injection, SettingsPageAssumption
<1>5. Cardinality(1..Len(rows)) = Len(rows)
  BY <1>1, FS_Interval
<1> QED BY <1>4, <1>5

(* The keys that are given in order. *)
LEMMA NamesAreDistinct ==
  ASSUME NEW rows \in Seq(Row), \A i \in DOMAIN rows : rows[i].label # NoLabel,
         Len(rows) <= Cardinality(Sources),
         NEW keys \in [DOMAIN rows -> Keys], NamedInOrder(rows, keys)
  PROVE  \A i, j \in DOMAIN rows : keys[i] = keys[j] => i = j
<1> DEFINE taken(i) == {keys[j] : j \in 1..i-1}
<1>1. Len(rows) \in Nat /\ DOMAIN rows = 1..Len(rows) /\ Cardinality(Sources) \in Nat
  BY LenProperties, SettingsBounds
<1>2. ASSUME NEW i \in DOMAIN rows PROVE keys[i] \notin taken(i)
  <2>1. i - 1 \in Nat /\ 1..i-1 \subseteq DOMAIN rows /\ i - 1 < Cardinality(Sources)
    BY <1>1
  <2>2. taken(i) \in SUBSET Keys /\ IsFiniteSet(taken(i)) /\ Cardinality(taken(i)) <= i - 1
    BY <2>1, TakenIsSmall
  <2>3. Cardinality(taken(i)) \in Nat
    <3> HIDE DEF taken
    <3> QED BY <2>2, FS_CardinalityType
  <2>4. Cardinality(taken(i)) < Cardinality(Sources)
    <3> HIDE DEF taken
    <3> QED BY <1>1, <2>1, <2>2, <2>3
  <2>5. keys[i] = KeyFor(rows[i], taken(i)) /\ rows[i] \in Row
    BY <1>1, ElementOfSeq DEF NamedInOrder
  <2> HIDE DEF taken
  <2> QED BY <2>2, <2>4, <2>5, KeyForIsFree
<1>3. ASSUME NEW i \in DOMAIN rows, NEW j \in DOMAIN rows, j < i PROVE keys[i] # keys[j]
  <2>1. j \in 1..i-1
    BY <1>1, <1>3
  <2>2. keys[j] \in taken(i)
    BY <2>1
  <2> HIDE DEF taken
  <2> QED BY <1>2, <2>2
<1> SUFFICES ASSUME NEW i \in DOMAIN rows, NEW j \in DOMAIN rows, keys[i] = keys[j] PROVE i = j
  OBVIOUS
<1>4. ~(i < j) /\ ~(j < i)
  BY <1>3
<1> QED BY <1>1, <1>4

(* The keys that are given in order are the only ones. *)
LEMMA NamesAreUnique ==
  ASSUME NEW rows \in Seq(Row), NEW a \in [DOMAIN rows -> Keys], NEW b \in [DOMAIN rows -> Keys],
         NamedInOrder(rows, a), NamedInOrder(rows, b)
  PROVE  a = b
<1> DEFINE D == {i \in DOMAIN rows : a[i] # b[i]}
<1>1. Len(rows) \in Nat /\ DOMAIN rows = 1..Len(rows)
  BY LenProperties
<1>2. SUFFICES ASSUME D # {} PROVE FALSE
  OBVIOUS
<1>3. D \in SUBSET Int /\ IsFiniteSet(D)
  <2>1. D \in SUBSET (1..Len(rows)) /\ D \in SUBSET Int /\ IsFiniteSet(1..Len(rows))
    BY <1>1, FS_Interval
  <2> HIDE DEF D
  <2> QED BY <2>1, FS_Subset
<1>4. PICK m \in D : \A x \in D : m <= x
  <2> HIDE DEF D
  <2> QED BY <1>2, <1>3, FiniteExtremes
<1>5. \A j \in 1..m-1 : a[j] = b[j]
  <2> SUFFICES ASSUME NEW j \in 1..m-1 PROVE a[j] = b[j]
    OBVIOUS
  <2>1. j \in DOMAIN rows /\ ~(m <= j)
    BY <1>1
  <2> QED BY <1>4, <2>1
<1>6. {a[j] : j \in 1..m-1} = {b[j] : j \in 1..m-1}
  BY <1>5
<1>7. a[m] = b[m]
  BY <1>6 DEF NamedInOrder
<1> QED BY <1>7

(* The feeds of an answer: the rows with a text, with the keys given in order. *)
LEMMA FeedsAreSound ==
  ASSUME NEW rows \in Seq(Row), DistinctSources(rows)
  PROVE  LET feeds == build_feeds_from_rows(rows)
         IN  /\ feeds \in Seq(Feed) /\ DOMAIN feeds = DOMAIN Filled(rows)
             /\ \A j, k \in DOMAIN feeds : feeds[j].key = feeds[k].key => j = k
             /\ DistinctSources(feeds)
             /\ \E keys \in [DOMAIN Filled(rows) -> Keys] :
                  /\ NamedInOrder(Filled(rows), keys)
                  /\ feeds = [i \in DOMAIN Filled(rows) |-> [Filled(rows)[i] EXCEPT !.key = keys[i]]]
                  /\ \A i \in DOMAIN feeds :
                       /\ feeds[i].key = keys[i] /\ feeds[i].source = Filled(rows)[i].source
                       /\ feeds[i].label = Filled(rows)[i].label
<1> DEFINE filled == Filled(rows)
           keys == CHOOSE k \in [DOMAIN filled -> Keys] : NamedInOrder(filled, k)
           feeds == build_feeds_from_rows(rows)
<1>1. /\ filled \in Seq(Row) /\ Len(filled) <= Len(rows)
      /\ \A i \in DOMAIN filled :
           \E k \in Kept(rows) : Rank(rows, k) = i /\ filled[i] = rows[k]
      /\ \A k \in Kept(rows) :
           Rank(rows, k) \in DOMAIN filled /\ filled[Rank(rows, k)] = rows[k]
  BY FilledHolds
<1>2. \A k \in Kept(rows) : k \in DOMAIN rows /\ rows[k].label # NoLabel
  BY DEF Kept
<1>f. feeds = [i \in DOMAIN filled |-> [filled[i] EXCEPT !.key = keys[i]]]
  BY DEF build_feeds_from_rows
<1> HIDE DEF filled
<1>3. DistinctSources(filled) /\ \A i \in DOMAIN filled : filled[i].label # NoLabel
  BY <1>1, <1>2 DEF DistinctSources
<1>4. Len(filled) <= Cardinality(Sources)
  BY <1>1, <1>3, RowsFit
<1>5. keys \in [DOMAIN filled -> Keys] /\ NamedInOrder(filled, keys)
  BY <1>1, <1>3, <1>4, NamesExist
<1> HIDE DEF keys, feeds
<1>6. Len(filled) \in Nat /\ DOMAIN filled = 1..Len(filled) /\ \A i \in DOMAIN filled : filled[i] \in Row
  BY <1>1, LenProperties, ElementOfSeq
<1>7. ASSUME NEW i \in DOMAIN filled
      PROVE  LET feed == [filled[i] EXCEPT !.key = keys[i]]
             IN  /\ feed \in Feed /\ feed.key = keys[i] /\ feed.source = filled[i].source
                 /\ feed.label = filled[i].label
  <2>1. keys[i] \in Keys /\ filled[i] \in Row /\ filled[i].label # NoLabel
    BY <1>3, <1>5, <1>6
  <2> QED BY <2>1 DEF Row, Feed
<1>8. feeds \in Seq(Feed) /\ DOMAIN feeds = DOMAIN filled
  <2>1. feeds \in [1..Len(filled) -> Feed]
    BY <1>f, <1>6, <1>7
  <2> QED BY <1>6, <2>1, FunctionIsSequence
<1>9. \A i \in DOMAIN feeds : /\ feeds[i].key = keys[i] /\ feeds[i].source = filled[i].source
                              /\ feeds[i].label = filled[i].label
  BY <1>f, <1>7, <1>8
<1>10. \A j, k \in DOMAIN feeds : feeds[j].key = feeds[k].key => j = k
  <2>1. \A j, k \in DOMAIN filled : keys[j] = keys[k] => j = k
    BY <1>1, <1>3, <1>4, <1>5, NamesAreDistinct
  <2> QED BY <1>8, <1>9, <2>1
<1>11. DistinctSources(feeds)
  BY <1>3, <1>8, <1>9 DEF DistinctSources
<1> QED BY <1>5, <1>8, <1>9, <1>10, <1>11, <1>f DEF feeds, filled

-----------------------------------------------------------------------------
(* The settings page: the table *)

LEMMA RemoveAtHolds ==
  ASSUME NEW rows \in Seq(Row), NEW i \in DOMAIN rows
  PROVE  /\ RemoveAt(rows, i) \in Seq(Row) /\ DOMAIN RemoveAt(rows, i) = 1..Len(rows)-1
         /\ \A k \in 1..Len(rows)-1 : RemoveAt(rows, i)[k] = IF k < i THEN rows[k] ELSE rows[k+1]
<1> DEFINE before == SubSeq(rows, 1, i-1)
           after == SubSeq(rows, i+1, Len(rows))
<1>1. Len(rows) \in Nat /\ DOMAIN rows = 1..Len(rows) /\ \A k \in 1..Len(rows) : rows[k] \in Row
  BY LenProperties, ElementOfSeq
<1>2. before \in Seq(Row) /\ Len(before) = i - 1 /\ \A k \in 1..i-1 : before[k] = rows[k]
  <2>1. i - 1 \in Int /\ 1 \in Int /\ \A k \in 1..i-1 : rows[k] \in Row
    BY <1>1
  <2>2. /\ before \in Seq(Row)
        /\ Len(before) = IF 1 <= i-1 THEN (i-1)-1+1 ELSE 0
        /\ \A k \in 1..(i-1)-1+1 : before[k] = rows[1+k-1]
    <3> HIDE DEF before
    <3> QED BY <2>1, SubSeqProperties DEF before
  <2> HIDE DEF before
  <2> QED BY <1>1, <2>2
<1>3. /\ after \in Seq(Row) /\ Len(after) = Len(rows) - i
      /\ \A k \in 1..Len(rows)-i : after[k] = rows[k+i]
  <2>1. i + 1 \in Int /\ Len(rows) \in Int /\ \A k \in i+1..Len(rows) : rows[k] \in Row
    BY <1>1
  <2>2. /\ after \in Seq(Row)
        /\ Len(after) = IF i+1 <= Len(rows) THEN Len(rows)-(i+1)+1 ELSE 0
        /\ \A k \in 1..Len(rows)-(i+1)+1 : after[k] = rows[(i+1)+k-1]
    <3> HIDE DEF after
    <3> QED BY <2>1, SubSeqProperties DEF after
  <2>3. \A k \in 1..Len(rows)-i : (i+1)+k-1 = k+i
    BY <1>1
  <2> HIDE DEF after
  <2> QED BY <1>1, <2>2, <2>3
<1>4. RemoveAt(rows, i) = before \o after
  BY DEF RemoveAt
<1> HIDE DEF before, after
<1>5. /\ before \o after \in Seq(Row) /\ Len(before \o after) = (i-1) + (Len(rows)-i)
      /\ \A k \in 1..(i-1)+(Len(rows)-i) :
           (before \o after)[k] = IF k <= i-1 THEN before[k] ELSE after[k-(i-1)]
  <2>1. /\ before \o after \in Seq(Row) /\ Len(before \o after) = Len(before) + Len(after)
        /\ \A k \in 1..Len(before)+Len(after) :
             (before \o after)[k] = IF k <= Len(before) THEN before[k] ELSE after[k-Len(before)]
    BY <1>2, <1>3, ConcatProperties
  <2>2. Len(before) = i-1 /\ Len(after) = Len(rows)-i
    BY <1>2, <1>3
  <2> QED BY <2>1, <2>2
<1>6. (i-1) + (Len(rows)-i) = Len(rows)-1
  BY <1>1
<1>7. \A k \in 1..Len(rows)-1 : RemoveAt(rows, i)[k] = IF k < i THEN rows[k] ELSE rows[k+1]
  <2> SUFFICES ASSUME NEW k \in 1..Len(rows)-1
               PROVE  RemoveAt(rows, i)[k] = IF k < i THEN rows[k] ELSE rows[k+1]
    OBVIOUS
  <2>1. RemoveAt(rows, i)[k] = IF k <= i-1 THEN before[k] ELSE after[k-(i-1)]
    BY <1>4, <1>5, <1>6
  <2>2. CASE k < i
    <3>1. k <= i-1 /\ k \in 1..i-1
      BY <1>1, <2>2
    <3> QED BY <1>2, <2>1, <2>2, <3>1
  <2>3. CASE ~(k < i)
    <3>1. ~(k <= i-1) /\ k-(i-1) \in 1..Len(rows)-i /\ (k-(i-1))+i = k+1
      BY <1>1, <2>3
    <3> QED BY <1>3, <2>1, <2>3, <3>1
  <2> QED BY <2>2, <2>3
<1>8. DOMAIN RemoveAt(rows, i) = 1..Len(rows)-1
  BY <1>4, <1>5, <1>6, LenProperties
<1> QED BY <1>4, <1>5, <1>7, <1>8

(* Two tables with a text in the same rows. *)
LEMMA FilledTogether ==
  ASSUME NEW old \in Seq(Row), NEW new \in Seq(Row), Kept(new) = Kept(old),
         \A k \in Kept(old) : \A j \in 1..k : old[j].label # NoLabel <=> new[j].label # NoLabel
  PROVE  /\ DOMAIN Filled(new) = DOMAIN Filled(old)
         /\ \A i \in DOMAIN Filled(old) :
              \E k \in Kept(old) : Rank(old, k) = i /\ Filled(old)[i] = old[k] /\ Filled(new)[i] = new[k]
<1>1. ASSUME NEW k \in Kept(old) PROVE Rank(new, k) = Rank(old, k)
  <2>1. {j \in 1..k : old[j].label # NoLabel} = {j \in 1..k : new[j].label # NoLabel}
    OBVIOUS
  <2> QED BY <2>1 DEF Rank
<1>2. DOMAIN Filled(new) = DOMAIN Filled(old)
  BY FilledHolds
<1>3. ASSUME NEW i \in DOMAIN Filled(old)
      PROVE  \E k \in Kept(old) : Rank(old, k) = i /\ Filled(old)[i] = old[k] /\ Filled(new)[i] = new[k]
  <2>1. PICK k \in Kept(old) : Rank(old, k) = i /\ Filled(old)[i] = old[k]
    BY FilledHolds
  <2>2. Filled(new)[Rank(new, k)] = new[k]
    BY FilledHolds
  <2> QED BY <1>1, <2>1, <2>2
<1> QED BY <1>2, <1>3

(* A blank row at the end changes nothing on the server. *)
LEMMA BlankRowIsIgnored ==
  ASSUME NEW old \in Seq(Row), NEW new \in Seq(Row), Len(new) = Len(old) + 1,
         \A k \in 1..Len(old) : new[k] = old[k], new[Len(old) + 1].label = NoLabel
  PROVE  build_feeds_from_rows(new) = build_feeds_from_rows(old)
<1>1. /\ Len(old) \in Nat /\ DOMAIN old = 1..Len(old) /\ DOMAIN new = 1..Len(new)
  BY LenProperties
<1>2. Kept(new) = Kept(old)
  <2>1. ASSUME NEW k \in Kept(new) PROVE k \in Kept(old)
    <3>1. k \in 1..Len(old) + 1 /\ new[k].label # NoLabel
      BY <1>1 DEF Kept
    <3>2. k \in 1..Len(old)
      BY <1>1, <3>1
    <3> QED BY <1>1, <3>1, <3>2 DEF Kept
  <2>2. ASSUME NEW k \in Kept(old) PROVE k \in Kept(new)
    <3>1. k \in 1..Len(old) /\ old[k].label # NoLabel
      BY <1>1 DEF Kept
    <3>2. k \in 1..Len(new)
      BY <1>1, <3>1
    <3> QED BY <1>1, <3>1, <3>2 DEF Kept
  <2> QED BY <2>1, <2>2
<1>3. \A k \in Kept(old) : \A j \in 1..k : j \in 1..Len(old)
  BY <1>1 DEF Kept
<1>4. \A k \in Kept(old) : \A j \in 1..k : old[j].label # NoLabel <=> new[j].label # NoLabel
  BY <1>3
<1>5. /\ DOMAIN Filled(new) = DOMAIN Filled(old)
      /\ \A i \in DOMAIN Filled(old) :
           \E k \in Kept(old) : Rank(old, k) = i /\ Filled(old)[i] = old[k] /\ Filled(new)[i] = new[k]
  BY <1>2, <1>4, FilledTogether
<1>6. \A i \in DOMAIN Filled(old) : Filled(new)[i] = Filled(old)[i]
  BY <1>1, <1>5 DEF Kept
<1>7. Filled(new) \in Seq(Row) /\ Filled(old) \in Seq(Row)
  BY FilledHolds
<1>8. Filled(new) = Filled(old)
  <2>1. /\ Filled(new) = [i \in DOMAIN Filled(new) |-> Filled(new)[i]]
        /\ Filled(old) = [i \in DOMAIN Filled(old) |-> Filled(old)[i]]
    BY <1>7
  <2> QED BY <1>5, <1>6, <2>1
<1> QED BY <1>8 DEF build_feeds_from_rows

(* The keys of an answer: the rows, their sources and labels stay, and a row with a text has the
   key of the feed at its rank. *)
LEMMA AssignedRows ==
  ASSUME table \in Seq(Row), NEW feeds \in Seq(Feed), AssignKeys(feeds)
  PROVE  /\ table' \in Seq(Row) /\ DOMAIN table' = DOMAIN table
         /\ \A k \in DOMAIN table :
              /\ table'[k].source = table[k].source /\ table'[k].label = table[k].label
              /\ k \in Kept(table) /\ Rank(table, k) \in DOMAIN feeds =>
                   table'[k] = [table[k] EXCEPT !.key = feeds[Rank(table, k)].key]
<1>1. Len(table) \in Nat /\ DOMAIN table = 1..Len(table) /\ \A k \in DOMAIN table : table[k] \in Row
  BY LenProperties, ElementOfSeq
<1>2. \A i \in 1..Len(feeds) : feeds[i] \in Feed
  BY ElementOfSeq
<1>3. Len(feeds) \in Nat /\ DOMAIN feeds = 1..Len(feeds)
  BY LenProperties
<1> DEFINE new(k) == IF table[k].label # NoLabel /\ Rank(table, k) <= Len(feeds)
                     THEN [table[k] EXCEPT !.key = feeds[Rank(table, k)].key] ELSE table[k]
<1>4. ASSUME NEW k \in DOMAIN table
      PROVE  /\ new(k) \in Row /\ new(k).source = table[k].source /\ new(k).label = table[k].label
             /\ k \in Kept(table) /\ Rank(table, k) \in DOMAIN feeds =>
                  new(k) = [table[k] EXCEPT !.key = feeds[Rank(table, k)].key]
  <2>1. CASE table[k].label # NoLabel /\ Rank(table, k) <= Len(feeds)
    <3>1. k \in Kept(table)
      BY <2>1 DEF Kept
    <3>2. Rank(table, k) \in 1..Cardinality(Kept(table)) /\ Cardinality(Kept(table)) \in Nat
      BY <3>1, RankIsAPlace
    <3>3. Rank(table, k) \in 1..Len(feeds)
      BY <1>3, <2>1, <3>2
    <3>4. feeds[Rank(table, k)].key \in Keys
      BY <1>2, <3>3 DEF Feed
    <3>5. new(k) = [table[k] EXCEPT !.key = feeds[Rank(table, k)].key]
      BY <2>1
    <3>6. table[k] \in Row
      BY <1>1
    <3> HIDE DEF new
    <3> QED BY <3>1, <3>4, <3>5, <3>6 DEF Row
  <2>2. CASE ~(table[k].label # NoLabel /\ Rank(table, k) <= Len(feeds))
    <3>1. new(k) = table[k] /\ table[k] \in Row
      BY <1>1, <2>2
    <3>2. ~(k \in Kept(table) /\ Rank(table, k) \in DOMAIN feeds)
      BY <1>3, <2>2 DEF Kept
    <3> HIDE DEF new
    <3> QED BY <3>1, <3>2
  <2> QED BY <2>1, <2>2
<1>5. table' = [k \in DOMAIN table |-> new(k)]
  BY DEF AssignKeys
<1> HIDE DEF new
<1>6. table' \in [1..Len(table) -> Row]
  BY <1>1, <1>4, <1>5
<1>7. table' \in Seq(Row) /\ DOMAIN table' = DOMAIN table
  BY <1>1, <1>6, FunctionIsSequence
<1>8. \A k \in DOMAIN table : table'[k] = new(k)
  BY <1>5
<1> QED BY <1>4, <1>7, <1>8

(* The keys of its own answer: the table would be answered the same again, and has the keys of
   the answer. *)
LEMMA AnsweredTable ==
  ASSUME table \in Seq(Row), DistinctSources(table), AssignKeys(build_feeds_from_rows(table))
  PROVE  /\ build_feeds_from_rows(table') = build_feeds_from_rows(table)
         /\ KeysAgree(table', build_feeds_from_rows(table))
<1> DEFINE feeds == build_feeds_from_rows(table)
<1>1. /\ feeds \in Seq(Feed) /\ DOMAIN feeds = DOMAIN Filled(table)
      /\ \A j, k \in DOMAIN feeds : feeds[j].key = feeds[k].key => j = k
      /\ \E keys \in [DOMAIN Filled(table) -> Keys] :
           /\ NamedInOrder(Filled(table), keys)
           /\ feeds = [i \in DOMAIN Filled(table) |-> [Filled(table)[i] EXCEPT !.key = keys[i]]]
           /\ \A i \in DOMAIN feeds :
                /\ feeds[i].key = keys[i] /\ feeds[i].source = Filled(table)[i].source
                /\ feeds[i].label = Filled(table)[i].label
  BY FeedsAreSound
<1> PICK keys \in [DOMAIN Filled(table) -> Keys] :
      /\ NamedInOrder(Filled(table), keys)
      /\ feeds = [i \in DOMAIN Filled(table) |-> [Filled(table)[i] EXCEPT !.key = keys[i]]]
      /\ \A i \in DOMAIN feeds :
           /\ feeds[i].key = keys[i] /\ feeds[i].source = Filled(table)[i].source
           /\ feeds[i].label = Filled(table)[i].label
  BY <1>1
<1>2. AssignKeys(feeds)
  OBVIOUS
<1> HIDE DEF feeds
<1>3. /\ table' \in Seq(Row) /\ DOMAIN table' = DOMAIN table
      /\ \A k \in DOMAIN table :
           /\ table'[k].source = table[k].source /\ table'[k].label = table[k].label
           /\ k \in Kept(table) /\ Rank(table, k) \in DOMAIN feeds =>
                table'[k] = [table[k] EXCEPT !.key = feeds[Rank(table, k)].key]
  BY <1>1, <1>2, AssignedRows
<1>4. Len(table) \in Nat /\ DOMAIN table = 1..Len(table)
  BY LenProperties
<1>5. Kept(table') = Kept(table)
  BY <1>3 DEF Kept
<1>6. \A k \in Kept(table) : \A j \in 1..k : table[j].label # NoLabel <=> table'[j].label # NoLabel
  <2>1. \A k \in Kept(table) : \A j \in 1..k : j \in DOMAIN table
    BY <1>4 DEF Kept
  <2> QED BY <1>3, <2>1
<1>7. /\ DOMAIN Filled(table') = DOMAIN Filled(table)
      /\ \A i \in DOMAIN Filled(table) :
           \E k \in Kept(table) : Rank(table, k) = i /\ Filled(table)[i] = table[k] /\ Filled(table')[i] = table'[k]
  BY <1>3, <1>5, <1>6, FilledTogether
<1>8. ASSUME NEW i \in DOMAIN feeds PROVE Filled(table')[i] = feeds[i]
  <2>1. PICK k \in Kept(table) : Rank(table, k) = i /\ Filled(table)[i] = table[k] /\ Filled(table')[i] = table'[k]
    BY <1>1, <1>7
  <2>2. table'[k] = [table[k] EXCEPT !.key = feeds[i].key]
    BY <1>3, <2>1 DEF Kept
  <2>3. feeds[i] = [table[k] EXCEPT !.key = keys[i]]
    BY <1>1, <2>1
  <2> QED BY <2>1, <2>2, <2>3
<1>9. Filled(table') = feeds /\ feeds \in Seq(Row)
  <2>1. Filled(table') \in Seq(Row)
    BY <1>3, FilledHolds
  <2>2. /\ Filled(table') = [i \in DOMAIN Filled(table') |-> Filled(table')[i]]
        /\ feeds = [i \in DOMAIN feeds |-> feeds[i]]
    BY <1>1, <2>1
  <2>3. Filled(table') = feeds
    BY <1>1, <1>7, <1>8, <2>2
  <2> QED BY <2>1, <2>3
<1>10. NamedInOrder(feeds, keys)
  <2> SUFFICES ASSUME NEW i \in DOMAIN feeds
               PROVE  keys[i] = KeyFor(feeds[i], {keys[j] : j \in 1..i-1})
    BY DEF NamedInOrder
  <2>1. feeds[i].key = keys[i] /\ keys[i] # NoKey
    BY <1>1, NoKeyAssumption
  <2>2. Len(feeds) \in Nat /\ DOMAIN feeds = 1..Len(feeds)
    BY <1>1, LenProperties
  <2>3. keys[i] \notin {keys[j] : j \in 1..i-1}
    <3> SUFFICES ASSUME NEW j \in 1..i-1, keys[j] = keys[i] PROVE FALSE
      OBVIOUS
    <3>1. j \in DOMAIN feeds /\ j # i
      BY <2>2
    <3>2. feeds[j].key = keys[j]
      BY <3>1
    <3>3. feeds[j].key = feeds[i].key
      BY <2>1, <3>2
    <3> QED BY <1>1, <3>1, <3>3
  <2> QED BY <2>1, <2>3 DEF KeyFor
<1>11. DistinctSources(table')
  BY <1>3 DEF DistinctSources
<1>12. build_feeds_from_rows(table') = feeds
  <2>0. ASSUME NEW rows \in Seq(Row), DistinctSources(rows)
        PROVE  \E again \in [DOMAIN Filled(rows) -> Keys] :
                 /\ NamedInOrder(Filled(rows), again)
                 /\ build_feeds_from_rows(rows) =
                      [i \in DOMAIN Filled(rows) |-> [Filled(rows)[i] EXCEPT !.key = again[i]]]
    BY <2>0, FeedsAreSound
  <2>1. PICK again \in [DOMAIN Filled(table') -> Keys] :
          /\ NamedInOrder(Filled(table'), again)
          /\ build_feeds_from_rows(table') =
               [i \in DOMAIN Filled(table') |-> [Filled(table')[i] EXCEPT !.key = again[i]]]
    BY <1>3, <1>11, <2>0
  <2>2. again = keys
    BY <1>1, <1>9, <1>10, <2>1, NamesAreUnique
  <2>3. build_feeds_from_rows(table') = [i \in DOMAIN feeds |-> [feeds[i] EXCEPT !.key = keys[i]]]
    BY <1>9, <2>1, <2>2
  <2>4. \A i \in DOMAIN feeds : [feeds[i] EXCEPT !.key = keys[i]] = feeds[i]
    <3> SUFFICES ASSUME NEW i \in DOMAIN feeds PROVE [feeds[i] EXCEPT !.key = keys[i]] = feeds[i]
      OBVIOUS
    <3>1. feeds[i] \in Feed
      <4>1. feeds \in Seq(Feed) /\ i \in 1..Len(feeds)
        BY <1>1, LenProperties
      <4> QED BY <4>1, ElementOfSeq
    <3>2. feeds[i].key = keys[i]
      OBVIOUS
    <3> QED BY <3>1, <3>2 DEF Feed
  <2>5. feeds = [i \in DOMAIN feeds |-> feeds[i]]
    <3>1. feeds \in Seq(Feed)
      BY <1>1
    <3> QED BY <3>1
  <2>6. [i \in DOMAIN feeds |-> [feeds[i] EXCEPT !.key = keys[i]]] = [i \in DOMAIN feeds |-> feeds[i]]
    BY <2>4, Zenon
  <2> QED BY <2>3, <2>5, <2>6, Zenon
<1>13. KeysAgree(table', feeds)
  <2> SUFFICES ASSUME NEW k \in DOMAIN table', NEW j \in DOMAIN feeds, feeds[j].source = table'[k].source
               PROVE  feeds[j].key = table'[k].key
    BY DEF KeysAgree
  <2>1. PICK p \in Kept(table) : Rank(table, p) = j /\ Filled(table)[j] = table[p] /\ Filled(table')[j] = table'[p]
    BY <1>1, <1>7
  <2>2. p \in DOMAIN table /\ k \in DOMAIN table /\ feeds[j].source = table[p].source
    BY <1>1, <1>3, <2>1 DEF Kept
  <2>3. p = k
    BY <1>3, <2>2 DEF DistinctSources
  <2> QED BY <1>8, <2>1, <2>3
<1> QED BY <1>12, <1>13 DEF feeds

LEMMA ChangedRequest ==
  ASSUME request \in [Requests -> Request], NEW n \in Requests, NEW r \in Request,
         request' = [request EXCEPT ![n] = r]
  PROVE  /\ request' \in [Requests -> Request] /\ request'[n] = r
         /\ \A m \in Requests \ {n} : request'[m] = request[m]
OBVIOUS

-----------------------------------------------------------------------------
(* The settings page: every step keeps the invariant *)

LEMMA BlankRequests ==
  /\ NoRequest \in Request /\ Ended \in Request
  /\ NoRequest.step = "none" /\ NoRequest.rows = <<>> /\ Ended.step = "done" /\ Ended.rows = <<>>
BY EmptySeq DEF NoRequest, Ended, Request

LEMMA NothingSound == DistinctSources(<<>>) /\ <<>> \in Seq(Row) /\ <<>> \in Seq(Feed) /\ DOMAIN <<>> = {}
<1>1. DOMAIN <<>> = {}
  OBVIOUS
<1> QED BY <1>1, EmptySeq DEF DistinctSources

LEMMA PageInitInductive == PageInit => PageInductive
<1> SUFFICES ASSUME PageInit PROVE PageInductive
  OBVIOUS
<1>1. table = <<>> /\ config = <<>> /\ disturbed = FALSE /\ edits \in Nat
  BY DEF PageInit
<1>2. request \in [Requests -> Request] /\ \A n \in Requests : request[n] = NoRequest
  BY BlankRequests DEF PageInit
<1>3. PageTypes
  BY <1>1, <1>2, NothingSound DEF PageTypes
<1>4. KeysAreDistinct
  BY <1>1, NothingSound DEF KeysAreDistinct
<1>5. OneRowEach
  BY <1>1, <1>2, NothingSound, BlankRequests DEF OneRowEach
<1>6. Orderly
  BY <1>1, <1>2, NothingSound, BlankRequests DEF Orderly, Expected, KeysAgree
<1> QED BY <1>3, <1>4, <1>5, <1>6 DEF PageInductive, TableInvariant

(* A step that leaves the requests and the file alone. *)
LEMMA TableStep ==
  ASSUME PageInductive, UNCHANGED <<config, request>>, table' \in Seq(Row), edits' \in Nat,
         disturbed' \in BOOLEAN, disturbed => disturbed', DistinctSources(table'),
         ~disturbed' => /\ ~Outstanding \/ build_feeds_from_rows(table') = build_feeds_from_rows(table)
                        /\ KeysAgree(table, config) => KeysAgree(table', config)
  PROVE  PageInductive'
<1>1. PageTypes /\ KeysAreDistinct /\ OneRowEach /\ (~disturbed => Orderly)
  BY DEF PageInductive, TableInvariant
<1>2. PageTypes'
  BY <1>1 DEF PageTypes
<1>3. KeysAreDistinct'
  BY <1>1 DEF KeysAreDistinct
<1>4. OneRowEach'
  BY <1>1 DEF OneRowEach
<1>5. ASSUME ~disturbed' PROVE Orderly'
  <2>1. Orderly
    BY <1>1, <1>5
  <2>2. ASSUME NEW n \in Requests PROVE Expected(request[n], table', config)
    <3>1. Expected(request[n], table, config)
      BY <2>1 DEF Orderly
    <3>2. CASE ~Outstanding
      BY <3>2 DEF Outstanding, Expected
    <3>3. CASE build_feeds_from_rows(table') = build_feeds_from_rows(table)
      BY <3>1, <3>3 DEF Expected
    <3> QED BY <1>5, <3>2, <3>3
  <2>3. (\A n \in Requests : request[n].step # "served") => KeysAgree(table', config)
    BY <1>5, <2>1 DEF Orderly
  <2> QED BY <2>2, <2>3 DEF Orderly
<1> QED BY <1>2, <1>3, <1>4, <1>5 DEF PageInductive, TableInvariant

LEMMA AddRowInductive ==
  ASSUME PageInductive, NEW s \in Sources, AddRow(s)
  PROVE  PageInductive'
<1> DEFINE row == [source |-> s, label |-> NoLabel, key |-> NoKey]
<1>1. PageTypes /\ OneRowEach
  BY DEF PageInductive, TableInvariant
<1>2. table' = Append(table, row) /\ UNCHANGED <<config, request, disturbed, edits>>
  BY DEF AddRow
<1>3. row \in Row
  BY DEF Row
<1>4. table \in Seq(Row) /\ Len(table) \in Nat /\ DOMAIN table = 1..Len(table)
  BY <1>1, LenProperties DEF PageTypes
<1>5. /\ \A k \in DOMAIN table : table[k].source # s
      /\ \A j \in DOMAIN config : config[j].source # s
  BY DEF AddRow, Range
<1>6. row.source = s /\ row.label = NoLabel
  OBVIOUS
<1> HIDE DEF row
<1>7. /\ table' \in Seq(Row) /\ Len(table') = Len(table) + 1
      /\ \A k \in 1..Len(table) : table'[k] = table[k]
      /\ table'[Len(table) + 1] = row
  BY <1>2, <1>3, <1>4, AppendProperties
<1>8. DOMAIN table' = 1..Len(table) + 1
  BY <1>7, LenProperties
<1>9. \A k \in DOMAIN table' : k \in DOMAIN table \/ k = Len(table) + 1
  BY <1>4, <1>8
<1>10. DistinctSources(table')
  BY <1>1, <1>4, <1>5, <1>6, <1>7, <1>9 DEF OneRowEach, DistinctSources
<1>11. build_feeds_from_rows(table') = build_feeds_from_rows(table)
  BY <1>4, <1>6, <1>7, BlankRowIsIgnored
<1>12. KeysAgree(table, config) => KeysAgree(table', config)
  BY <1>4, <1>5, <1>6, <1>7, <1>9 DEF KeysAgree
<1>13. disturbed' \in BOOLEAN /\ (disturbed => disturbed') /\ edits' \in Nat
  BY <1>1, <1>2 DEF PageTypes
<1> QED BY <1>2, <1>7, <1>10, <1>11, <1>12, <1>13, TableStep

LEMMA EditDisturbs ==
  ASSUME PageTypes, Edit
  PROVE  disturbed' \in BOOLEAN /\ (disturbed => disturbed') /\ edits' \in Nat /\ (~disturbed' => ~Outstanding)
<1>1. Outstanding \in BOOLEAN
  BY DEF Outstanding
<1> QED BY <1>1 DEF PageTypes, Edit

LEMMA RetypeInductive ==
  ASSUME PageInductive, NEW k \in DOMAIN table, Retype(k)
  PROVE  PageInductive'
<1>1. PageTypes /\ OneRowEach
  BY DEF PageInductive, TableInvariant
<1>2. table \in Seq(Row) /\ DOMAIN table = 1..Len(table) /\ table[k] \in Row
  BY <1>1, LenProperties, ElementOfSeq DEF PageTypes
<1> PICK l \in Slugs \cup {NoLabel} : table' = [table EXCEPT ![k].label = l]
  BY DEF Retype
<1> DEFINE new == [table[k] EXCEPT !.label = l]
<1>3. new \in Row /\ new.source = table[k].source /\ new.key = table[k].key
  BY <1>2 DEF Row
<1>4. table' = [table EXCEPT ![k] = new]
  OBVIOUS
<1> HIDE DEF new
<1>5. /\ table' \in Seq(Row) /\ Len(table') = Len(table)
      /\ \A j \in 1..Len(table) : table'[j] = IF j = k THEN new ELSE table[j]
  BY <1>2, <1>3, <1>4, ExceptSeq
<1>6. DOMAIN table' = DOMAIN table
  BY <1>2, <1>5, LenProperties
<1>7. \A j \in DOMAIN table : table'[j].source = table[j].source /\ table'[j].key = table[j].key
  BY <1>2, <1>3, <1>5
<1>8. DistinctSources(table')
  BY <1>1, <1>6, <1>7 DEF OneRowEach, DistinctSources
<1>9. KeysAgree(table, config) => KeysAgree(table', config)
  BY <1>6, <1>7 DEF KeysAgree
<1>10. Edit /\ UNCHANGED <<config, request>>
  BY DEF Retype
<1> QED BY <1>1, <1>5, <1>8, <1>9, <1>10, EditDisturbs, TableStep

LEMMA RemoveRowInductive ==
  ASSUME PageInductive, NEW i \in DOMAIN table, RemoveRow(i)
  PROVE  PageInductive'
<1>1. PageTypes /\ OneRowEach
  BY DEF PageInductive, TableInvariant
<1>2. table \in Seq(Row) /\ Len(table) \in Nat /\ DOMAIN table = 1..Len(table)
  BY <1>1, LenProperties DEF PageTypes
<1>3. table' = RemoveAt(table, i)
  BY DEF RemoveRow
<1>4. /\ table' \in Seq(Row) /\ DOMAIN table' = 1..Len(table)-1
      /\ \A k \in 1..Len(table)-1 : table'[k] = IF k < i THEN table[k] ELSE table[k+1]
  BY <1>2, <1>3, RemoveAtHolds
<1> DEFINE from(k) == IF k < i THEN k ELSE k+1
<1>5. ASSUME NEW k \in DOMAIN table' PROVE from(k) \in DOMAIN table /\ table'[k] = table[from(k)]
  BY <1>2, <1>4
<1>6. \A j, k \in DOMAIN table' : from(j) = from(k) => j = k
  BY <1>2, <1>4
<1> HIDE DEF from
<1>7. DistinctSources(table')
  BY <1>1, <1>5, <1>6 DEF OneRowEach, DistinctSources
<1>8. KeysAgree(table, config) => KeysAgree(table', config)
  BY <1>5 DEF KeysAgree
<1>9. Edit /\ UNCHANGED <<config, request>>
  BY DEF RemoveRow
<1> QED BY <1>1, <1>4, <1>7, <1>8, <1>9, EditDisturbs, TableStep

LEMMA ReloadInductive ==
  ASSUME PageInductive, Reload
  PROVE  PageInductive'
<1>1. PageTypes /\ OneRowEach
  BY DEF PageInductive, TableInvariant
<1>2. table' = config /\ ~Outstanding /\ UNCHANGED <<config, request, disturbed, edits>>
  BY DEF Reload
<1>3. table' \in Seq(Row)
  <2>1. Feed \subseteq Row
    BY DEF Feed, Row
  <2>2. config \in Seq(Feed)
    BY <1>1 DEF PageTypes
  <2>3. Len(config) \in Nat /\ DOMAIN config = 1..Len(config) /\ \A k \in 1..Len(config) : config[k] \in Row
    BY <2>1, <2>2, LenProperties, ElementOfSeq
  <2>4. config \in [1..Len(config) -> Row]
    BY <2>2, <2>3
  <2>5. config \in Seq(Row)
    BY <2>3, <2>4, FunctionIsSequence
  <2> QED BY <1>2, <2>5
<1>4. DistinctSources(table')
  BY <1>1, <1>2 DEF OneRowEach
<1>5. KeysAgree(table', config)
  BY <1>1, <1>2 DEF KeysAgree, OneRowEach, DistinctSources
<1>6. disturbed' \in BOOLEAN /\ (disturbed => disturbed') /\ edits' \in Nat
  BY <1>1, <1>2 DEF PageTypes
<1> QED BY <1>2, <1>3, <1>4, <1>5, <1>6, TableStep

(* A step of one request, which says what it carries now. *)
LEMMA RequestStep ==
  ASSUME PageInductive, NEW n \in Requests, NEW r \in Request, request' = [request EXCEPT ![n] = r],
         table' \in Seq(Row), config' \in Seq(Feed), disturbed' \in BOOLEAN, edits' \in Nat,
         disturbed => disturbed', KeysAreDistinct',
         DistinctSources(table'), DistinctSources(config'), DistinctSources(r.rows),
         ~disturbed' => /\ build_feeds_from_rows(table') = build_feeds_from_rows(table)
                        /\ config' = config \/ config' = build_feeds_from_rows(table)
                        /\ Expected(r, table', config')
                        /\ \/ r.step = "served"
                           \/ \E m \in Requests \ {n} : request[m].step = "served"
                           \/ KeysAgree(table', config')
  PROVE  PageInductive'
<1>1. PageTypes /\ OneRowEach /\ (~disturbed => Orderly)
  BY DEF PageInductive, TableInvariant
<1>2. /\ request' \in [Requests -> Request] /\ request'[n] = r
      /\ \A m \in Requests \ {n} : request'[m] = request[m]
  BY <1>1, ChangedRequest DEF PageTypes
<1>3. PageTypes'
  BY <1>1, <1>2 DEF PageTypes
<1>4. OneRowEach'
  <2> SUFFICES ASSUME NEW m \in Requests PROVE DistinctSources(request'[m].rows)
    BY DEF OneRowEach
  <2> QED BY <1>1, <1>2 DEF OneRowEach
<1>5. ASSUME ~disturbed' PROVE Orderly'
  <2>1. Orderly
    BY <1>1, <1>5
  <2>2. ASSUME NEW m \in Requests PROVE Expected(request'[m], table', config')
    <3>1. CASE m = n
      BY <1>2, <1>5, <3>1
    <3>2. CASE m # n
      <4>1. request'[m] = request[m] /\ Expected(request[m], table, config)
        BY <1>2, <2>1, <3>2 DEF Orderly
      <4> QED BY <1>5, <4>1 DEF Expected
    <3> QED BY <3>1, <3>2
  <2>3. (\A m \in Requests : request'[m].step # "served") => KeysAgree(table', config')
    BY <1>2, <1>5
  <2> QED BY <2>2, <2>3 DEF Orderly
<1> QED BY <1>3, <1>4, <1>5 DEF PageInductive, TableInvariant

LEMMA ClickSaveInductive ==
  ASSUME PageInductive, ClickSave
  PROVE  PageInductive'
<1>1. PageTypes /\ KeysAreDistinct /\ OneRowEach /\ (~disturbed => Orderly)
  BY DEF PageInductive, TableInvariant
<1> PICK n \in Requests :
      /\ request[n].step = "none"
      /\ request' = [request EXCEPT ![n] = [step |-> "sent", rows |-> table, feeds |-> <<>>]]
  BY DEF ClickSave
<1> DEFINE r == [step |-> "sent", rows |-> table, feeds |-> <<>>]
<1>2. UNCHANGED <<table, config, disturbed, edits>>
  BY DEF ClickSave
<1>3. r \in Request
  BY <1>1, EmptySeq DEF PageTypes, Request
<1>4. r.step = "sent" /\ r.rows = table /\ request' = [request EXCEPT ![n] = r]
  OBVIOUS
<1> HIDE DEF r
<1>5. table' \in Seq(Row) /\ config' \in Seq(Feed) /\ disturbed' \in BOOLEAN /\ edits' \in Nat
  BY <1>1, <1>2 DEF PageTypes
<1>6. KeysAreDistinct'
  BY <1>1, <1>2 DEF KeysAreDistinct
<1>7. DistinctSources(table') /\ DistinctSources(config') /\ DistinctSources(r.rows)
  BY <1>1, <1>2, <1>4 DEF OneRowEach
<1>8. ASSUME ~disturbed'
      PROVE  /\ Expected(r, table', config')
             /\ \/ \E m \in Requests \ {n} : request[m].step = "served"
                \/ KeysAgree(table', config')
  <2>1. Orderly
    BY <1>1, <1>2, <1>8
  <2>2. Expected(r, table', config')
    BY <1>2, <1>4 DEF Expected
  <2>3. \/ \E m \in Requests \ {n} : request[m].step = "served"
        \/ KeysAgree(table', config')
    BY <1>2, <2>1 DEF Orderly
  <2> QED BY <2>2, <2>3
<1> QED BY <1>2, <1>3, <1>4, <1>5, <1>6, <1>7, <1>8, RequestStep

LEMMA ServeInductive ==
  ASSUME PageInductive, NEW n \in Requests, Serve(n)
  PROVE  PageInductive'
<1> DEFINE rows == request[n].rows
           feeds == build_feeds_from_rows(rows)
           r == [step |-> "served", rows |-> <<>>, feeds |-> config']
<1>1. PageTypes /\ OneRowEach /\ (~disturbed => Orderly)
  BY DEF PageInductive, TableInvariant
<1>2. /\ request[n].step = "sent" /\ config' = feeds /\ request' = [request EXCEPT ![n] = r]
      /\ UNCHANGED <<table, disturbed, edits>>
  BY DEF Serve
<1>3. rows \in Seq(Row) /\ DistinctSources(rows)
  BY <1>1 DEF PageTypes, Request, OneRowEach
<1>4. /\ feeds \in Seq(Feed)
      /\ \A j, k \in DOMAIN feeds : feeds[j].key = feeds[k].key => j = k
      /\ DistinctSources(feeds)
  BY <1>3, FeedsAreSound
<1>5. r.step = "served" /\ r.rows = <<>> /\ r.feeds = config'
  OBVIOUS
<1>6. r \in Request
  <2> HIDE DEF feeds
  <2> QED BY <1>2, <1>4, EmptySeq DEF Request
<1> HIDE DEF r
<1>7. table' \in Seq(Row) /\ config' \in Seq(Feed) /\ disturbed' \in BOOLEAN /\ edits' \in Nat
  BY <1>1, <1>2, <1>4 DEF PageTypes
<1>8. KeysAreDistinct'
  BY <1>2, <1>4 DEF KeysAreDistinct
<1>9. DistinctSources(table') /\ DistinctSources(config') /\ DistinctSources(r.rows)
  BY <1>1, <1>2, <1>4, <1>5, NothingSound DEF OneRowEach
<1>10. ASSUME ~disturbed'
       PROVE  /\ build_feeds_from_rows(table') = build_feeds_from_rows(table)
              /\ config' = build_feeds_from_rows(table)
              /\ Expected(r, table', config')
  <2>1. Expected(request[n], table, config)
    BY <1>1, <1>2, <1>10 DEF Orderly
  <2>2. config' = build_feeds_from_rows(table)
    BY <1>2, <2>1 DEF Expected
  <2> QED BY <1>2, <1>5, <2>2 DEF Expected
<1> HIDE DEF feeds
<1> QED BY <1>2, <1>5, <1>6, <1>7, <1>8, <1>9, <1>10, RequestStep

LEMMA AnswerInductive ==
  ASSUME PageInductive, NEW n \in Requests, Answer(n)
  PROVE  PageInductive'
<1> DEFINE feeds == request[n].feeds
<1>1. PageTypes /\ KeysAreDistinct /\ OneRowEach /\ (~disturbed => Orderly)
  BY DEF PageInductive, TableInvariant
<1>2. /\ request[n].step = "served" /\ AssignKeys(feeds) /\ request' = [request EXCEPT ![n] = Ended]
      /\ UNCHANGED <<config, disturbed, edits>>
  BY DEF Answer
<1>3. feeds \in Seq(Feed) /\ table \in Seq(Row) /\ Ended \in Request
  BY <1>1, BlankRequests DEF PageTypes, Request
<1>4. /\ table' \in Seq(Row) /\ DOMAIN table' = DOMAIN table
      /\ \A k \in DOMAIN table : table'[k].source = table[k].source
  BY <1>2, <1>3, AssignedRows
<1>5. config' \in Seq(Feed) /\ disturbed' \in BOOLEAN /\ edits' \in Nat
  BY <1>1, <1>2 DEF PageTypes
<1>6. KeysAreDistinct'
  BY <1>1, <1>2 DEF KeysAreDistinct
<1>7. DistinctSources(table') /\ DistinctSources(config') /\ DistinctSources(Ended.rows)
  BY <1>1, <1>2, <1>4, NothingSound, BlankRequests DEF OneRowEach, DistinctSources
<1>8. ASSUME ~disturbed'
      PROVE  /\ build_feeds_from_rows(table') = build_feeds_from_rows(table)
             /\ Expected(Ended, table', config')
             /\ KeysAgree(table', config')
  <2>1. Expected(request[n], table, config)
    BY <1>1, <1>2, <1>8 DEF Orderly
  <2>2. feeds = build_feeds_from_rows(table) /\ config = build_feeds_from_rows(table)
    BY <1>2, <2>1 DEF Expected
  <2>3. DistinctSources(table) /\ AssignKeys(build_feeds_from_rows(table))
    BY <1>1, <1>2, <2>2 DEF OneRowEach
  <2>4. /\ build_feeds_from_rows(table') = build_feeds_from_rows(table)
        /\ KeysAgree(table', build_feeds_from_rows(table))
    BY <1>3, <2>3, AnsweredTable
  <2> QED BY <1>2, <2>2, <2>4, BlankRequests DEF Expected
<1> QED BY <1>2, <1>3, <1>4, <1>5, <1>6, <1>7, <1>8, RequestStep

LEMMA LoseInductive ==
  ASSUME PageInductive, NEW n \in Requests, Lose(n)
  PROVE  PageInductive'
<1>1. PageTypes /\ KeysAreDistinct /\ OneRowEach
  BY DEF PageInductive, TableInvariant
<1>2. /\ request' = [request EXCEPT ![n] = Ended] /\ disturbed' = TRUE
      /\ UNCHANGED <<table, config, edits>>
  BY DEF Lose
<1>3. table' \in Seq(Row) /\ config' \in Seq(Feed) /\ disturbed' \in BOOLEAN /\ edits' \in Nat
  BY <1>1, <1>2 DEF PageTypes
<1>4. KeysAreDistinct'
  BY <1>1, <1>2 DEF KeysAreDistinct
<1>5. DistinctSources(table') /\ DistinctSources(config') /\ DistinctSources(Ended.rows)
  BY <1>1, <1>2, NothingSound, BlankRequests DEF OneRowEach
<1>6. Ended \in Request
  BY BlankRequests
<1> QED BY <1>2, <1>3, <1>4, <1>5, <1>6, RequestStep

LEMMA PageNextInductive == PageInductive /\ [PageNext]_pageVars => PageInductive'
<1> SUFFICES ASSUME PageInductive, [PageNext]_pageVars PROVE PageInductive'
  OBVIOUS
<1>1. ASSUME NEW s \in Sources, AddRow(s) PROVE PageInductive'
  BY <1>1, AddRowInductive
<1>2. ASSUME NEW k \in DOMAIN table, Retype(k) PROVE PageInductive'
  BY <1>2, RetypeInductive
<1>3. ASSUME NEW k \in DOMAIN table, RemoveRow(k) PROVE PageInductive'
  BY <1>3, RemoveRowInductive
<1>4. CASE ClickSave
  BY <1>4, ClickSaveInductive
<1>5. CASE Reload
  BY <1>5, ReloadInductive
<1>6. ASSUME NEW n \in Requests, Serve(n) PROVE PageInductive'
  BY <1>6, ServeInductive
<1>7. ASSUME NEW n \in Requests, Answer(n) PROVE PageInductive'
  BY <1>7, AnswerInductive
<1>8. ASSUME NEW n \in Requests, Lose(n) PROVE PageInductive'
  BY <1>8, LoseInductive
<1>9. CASE UNCHANGED pageVars
  BY <1>9 DEF pageVars, PageInductive, TableInvariant, PageTypes, KeysAreDistinct, OneRowEach, Orderly
<1> QED BY <1>1, <1>2, <1>3, <1>4, <1>5, <1>6, <1>7, <1>8, <1>9 DEF PageNext

(* Of every behaviour of the page and the server, however many rows, sources, labels and saves:
   the table, the file and the requests have one row of each source at most, and as long as
   nothing disturbs a save every request gets the answer the table would get, and the rows have
   the keys of the file (saveConfig, build_feeds_from_rows). *)
THEOREM PageInductiveHolds == PageSpec => []PageInductive
<1>1. PageInit => PageInductive
  BY PageInitInductive
<1>2. PageInductive /\ [PageNext]_pageVars => PageInductive'
  BY PageNextInductive
<1> QED BY <1>1, <1>2, PTL DEF PageSpec

(* No two sources of the configuration ever share a key, hence a state file, whatever rows the
   page sends: lost answers, edits during a save and overlapping saves included. *)
THEOREM TableInvariantHolds == PageSpec => []TableInvariant
<1>1. PageInductive => TableInvariant
  BY DEF PageInductive
<1> QED BY <1>1, PageInductiveHolds, PTL

(* The step that writes the file: a row keeps the key it has in the file, or finds it taken by a
   row above, which held it or is called by it. *)
LEMMA ServeKeeps ==
  ASSUME PageInductive, NEW n \in Requests, Serve(n), ~disturbed, KeysAgree(table, config),
         NEW h \in DOMAIN config, NEW k \in DOMAIN config', config'[k].source = config[h].source
  PROVE  KeptOrTaken(config[h], k)
<1> DEFINE key == config[h].key
<1>1. /\ table \in Seq(Row) /\ config \in Seq(Feed) /\ DistinctSources(table)
      /\ Expected(request[n], table, config)
  BY DEF PageInductive, TableInvariant, PageTypes, OneRowEach, Orderly
<1>2. config' = build_feeds_from_rows(table)
  BY <1>1 DEF Serve, Expected
<1>3. DOMAIN config' = DOMAIN Filled(table)
  BY <1>1, <1>2, FeedsAreSound
<1>4. PICK keys \in [DOMAIN Filled(table) -> Keys] :
        /\ NamedInOrder(Filled(table), keys)
        /\ \A i \in DOMAIN config' : config'[i].key = keys[i] /\ config'[i].source = Filled(table)[i].source
  BY <1>1, <1>2, FeedsAreSound
<1>5. \A i \in DOMAIN Filled(table) : \E p \in DOMAIN table : Filled(table)[i] = table[p]
  BY <1>1, FilledHolds DEF Kept
<1>6. key \in Keys /\ key # NoKey
  <2>1. config[h] \in Feed
    BY <1>1, LenProperties, ElementOfSeq
  <2> QED BY <2>1, NoKeyAssumption DEF Feed
<1>7. PICK p \in DOMAIN table : Filled(table)[k] = table[p]
  BY <1>3, <1>5
<1>8. Filled(table)[k].key = key
  BY <1>3, <1>4, <1>7 DEF KeysAgree
<1>9. Filled(table) \in Seq(Row) /\ Len(Filled(table)) \in Nat /\ DOMAIN Filled(table) = 1..Len(Filled(table))
  BY <1>1, FilledHolds, LenProperties
<1> HIDE DEF key
<1>10. CASE key \notin {keys[j] : j \in 1..k-1}
  <2>1. keys[k] = key
    BY <1>3, <1>4, <1>6, <1>8, <1>10 DEF NamedInOrder, KeyFor
  <2> QED BY <1>4, <2>1 DEF KeptOrTaken, key
<1>11. CASE key \in {keys[j] : j \in 1..k-1}
  <2>1. PICK j \in 1..k-1 : keys[j] = key
    BY <1>11
  <2>2. j \in DOMAIN config'
    BY <1>3, <1>9
  <2>3. PICK q \in DOMAIN table : Filled(table)[j] = table[q]
    BY <1>3, <1>5, <2>2
  <2> DEFINE taken == {keys[i] : i \in 1..j-1}
  <2>4. key = KeyFor(table[q], taken)
    BY <1>3, <1>4, <2>1, <2>2, <2>3 DEF NamedInOrder
  <2> HIDE DEF taken
  <2>5. FreeKey(table[q].label, taken)[1] = table[q].label
    BY DEF FreeKey
  <2>6. table[q].label = key[1] \/ table[q].key = key
    BY <2>4, <2>5 DEF KeyFor
  <2>7. table[q] \in Range(table) /\ table[q].source = config'[j].source
    BY <1>4, <2>2, <2>3 DEF Range
  <2>8. Claims(config'[j].source, key)
    BY <2>6, <2>7 DEF Claims
  <2>9. config'[j].key = key
    BY <1>4, <2>1, <2>2
  <2> QED BY <2>8, <2>9 DEF KeptOrTaken, key
<1> QED BY <1>10, <1>11

(* A source keeps its key through every save and its own renamings, and loses it only to a row
   above that held it or is called by it, until a row is filled, renamed, emptied or removed
   during a save or an answer is lost. *)
THEOREM UndisturbedStay == PageSpec => UndisturbedKeysStay
<1>1. ASSUME PageInductive, [PageNext]_pageVars
      PROVE  [~disturbed' => \A f \in Range(config), k \in DOMAIN config' :
                               config'[k].source = f.source => KeptOrTaken(f, k)]_pageVars
  <2> SUFFICES ASSUME ~disturbed', NEW h \in DOMAIN config, NEW k \in DOMAIN config',
                      config'[k].source = config[h].source
               PROVE  KeptOrTaken(config[h], k)
    BY DEF Range
  <2>1. ASSUME config' = config PROVE KeptOrTaken(config[h], k)
    <3>1. h = k
      BY <1>1, <2>1 DEF PageInductive, OneRowEach, DistinctSources
    <3> QED BY <2>1, <3>1 DEF KeptOrTaken
  <2>2. ASSUME NEW n \in Requests, Serve(n) PROVE KeptOrTaken(config[h], k)
    <3>1. ~disturbed /\ Orderly
      BY <1>1, <2>2 DEF Serve, PageInductive
    <3>2. CASE KeysAgree(table, config)
      BY <1>1, <2>2, <3>1, <3>2, ServeKeeps
    <3>3. CASE ~KeysAgree(table, config)
      <4>1. PICK m \in Requests : request[m].step = "served"
        BY <3>1, <3>3 DEF Orderly
      <4>2. config = build_feeds_from_rows(table) /\ config' = build_feeds_from_rows(table)
        BY <2>2, <3>1, <4>1 DEF Orderly, Expected, Serve
      <4> QED BY <2>1, <4>2
    <3> QED BY <3>2, <3>3
  <2>3. CASE \E s \in Sources : AddRow(s)
    BY <2>1, <2>3 DEF AddRow
  <2>4. CASE \E i \in DOMAIN table : Retype(i) \/ RemoveRow(i)
    BY <2>1, <2>4 DEF Retype, RemoveRow
  <2>5. CASE ClickSave \/ Reload
    BY <2>1, <2>5 DEF ClickSave, Reload
  <2>6. CASE \E n \in Requests : Answer(n) \/ Lose(n)
    BY <2>1, <2>6 DEF Answer, Lose
  <2>7. CASE UNCHANGED pageVars
    BY <2>1, <2>7 DEF pageVars
  <2> QED BY <1>1, <2>2, <2>3, <2>4, <2>5, <2>6, <2>7 DEF PageNext
<1>2. PageSpec => [][PageNext]_pageVars
  BY DEF PageSpec
<1> QED BY <1>1, <1>2, PageInductiveHolds, PTL DEF UndisturbedKeysStay
=============================================================================
