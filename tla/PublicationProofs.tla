------------------------- MODULE PublicationProofs --------------------------
(***************************************************************************)
(* What the two publishers of indexed data promise, for every set of       *)
(* lanes, qblocks, facts and accounts and for chains of any length: the    *)
(* files never show or list more than there is, the restore window is      *)
(* narrowed only when it is safe, a registry counter never goes back, and  *)
(* a first block is exact once it was searched for.                        *)
(***************************************************************************)
EXTENDS QblockFiles, Registry, FiniteSetTheorems, FunctionTheorems,
        WellFoundedInduction, TLAPS

-----------------------------------------------------------------------------
(* The files: the invariant *)

Busy == {"read", "open", "write", "rename"}
Content == SUBSET (Facts \cup Qblocks \cup {None})

\* What a file may show: of a qblock what is stored, of the manifest what has a file.
Backing(p) == IF p = Manifest THEN {q \in Qblocks : file[q] # None} ELSE stored[p]

JobRecord ==
    [at : Busy \cup {"idle", "next", "walk"}, path : Paths \cup {None}, add : Content,
     doc : Content, fd : Inodes \cup {None}]

FilesType ==
    /\ stored \in [Qblocks -> SUBSET Facts]
    /\ old \subseteq Qblocks /\ settled \subseteq Qblocks
    /\ job \in [Writers -> JobRecord]
    /\ file \in [Paths -> Inodes \cup {None}] /\ temp \in [Paths -> Inodes \cup {None}]
    /\ data \in [Paths -> [Inodes -> Content]]
    /\ todo \subseteq Qblocks /\ due \subseteq Qblocks

\* Whatever a writer is about to publish, and whatever any inode holds that a rename may
\* still publish, is backed: not only what is visible now.
JobBacked(j) ==
    /\ j.at \in Busy => j.path \in Paths /\ j.add \subseteq Backing(j.path)
                          /\ j.doc \subseteq Backing(j.path)
    /\ j.fd # None <=> j.at = "write"
FilesBacked ==
    /\ \A w \in Writers : JobBacked(job[w])
    /\ \A p \in Paths, i \in Inodes : data[p][i] = Partial \/ data[p][i] \subseteq Backing(p)

\* The winners of an unfinished pass that has met no error have a file, are still to be
\* checked, or are being written.
SweepOK ==
    /\ complete /\ ~narrow =>
        \A q \in due : \/ file[q] # None \/ q \in todo
                       \/ job[Maintain].at \in Busy /\ job[Maintain].path = q
    /\ NarrowedIsComplete

FilesInv == FilesType /\ FilesBacked /\ SweepOK
-----------------------------------------------------------------------------
(* The registry: the invariant *)

ScanHolds == {"pin", "miners", "descs"}
RefreshHolds == {"pin", "desc", "miner"}

RegType ==
    /\ chain \in Seq(Events) /\ mode \in {"service", "admin"}
    /\ lock \in {"free", "scan", "live"}
    /\ scan \in [at : {"idle", "head", "lock"} \cup ScanHolds, target : Nat, head : Nat,
                 left : SUBSET Accounts]
    /\ refresh \in [at : {"idle", "lock"} \cup RefreshHolds, block : Nat, head : Nat]
    /\ search \in [at : {"idle", "next", "bisect"}, head : Nat, left : SUBSET Accounts,
                   account : SUBSET Accounts, low : Nat, high : Nat]
    /\ miners \in [Accounts -> Nat]
    /\ descs \in [Accounts -> [height : Nat, first : Nat]]
    /\ exact \subseteq Accounts /\ mark \in Nat /\ headRow \in [height : Nat, qblocks : Nat]

\* The lock has one owner, and what the owner pinned is a block of the chain.
LockOK ==
    /\ scan.at \in ScanHolds <=> lock = "scan"
    /\ refresh.at \in RefreshHolds <=> lock = "live"
    /\ scan.head <= Finalized /\ refresh.head <= Finalized /\ search.head <= Finalized
    /\ refresh.at # "idle" => refresh.block \in 1 .. Finalized

\* No stored counter is ahead of the chain, nor of the state the lock's owner writes from.
CountersOK ==
    \A a \in Accounts :
        /\ miners[a] <= Proofs(a, Finalized)
        /\ scan.at = "miners" => miners[a] <= Proofs(a, scan.head)
        /\ refresh.at \in {"desc", "miner"} => miners[a] <= Proofs(a, refresh.head)

DescriptorsOK ==
    \A a \in Accounts :
        /\ descs[a].height # 0 => descs[a].first \in 1 .. Finalized
        /\ a \in exact => descs[a].height # 0

\* The search has one account, keeps its first block between its two ends, and goes
\* through accounts that have a descriptor.
SearchOK ==
    /\ \A a \in search.left : Present(a, search.head)
    /\ search.at = "bisect" =>
        /\ search.low \in 1 .. search.high /\ search.high <= search.head
        /\ \A a, b \in search.account : a = b
        /\ \A a \in search.account :
             /\ descs[a].height # 0
             /\ Present(a, search.high)
             /\ Of(a, "clear", Finalized) = {} =>
                  \A n \in 1 .. search.low - 1 : ~Present(a, n)

RegInv == RegType /\ LockOK /\ CountersOK /\ DescriptorsOK /\ SearchOK /\ FirstSeenExact
-----------------------------------------------------------------------------
(* The files: operators *)

\* There is always an inode nobody uses for the path.
LEMMA FreeInode ==
    ASSUME FilesType, NEW w \in Writers, job[w].fd = None, NEW p \in Paths
    PROVE  \E new \in Inodes : new # file[p] /\ \A v \in Writers : ~Used(v, p, new)
<1>1. PICK others : others = Writers \ {w}
  OBVIOUS
<1>2. PICK fds : fds = {job[v].fd : v \in others}
  OBVIOUS
<1>3. /\ IsFiniteSet(Lanes) /\ IsFiniteSet(Inodes) /\ Maintain \notin Lanes /\ None \notin Inodes
      /\ Cardinality(Inodes) > Cardinality(Lanes) + 1
  BY FilesAssumption
<1>4. IsFiniteSet(Writers) /\ Cardinality(Writers) = Cardinality(Lanes) + 1
  BY <1>3, FS_AddElement DEF Writers
<1>5. Cardinality(Lanes) \in Nat /\ Cardinality(Inodes) \in Nat
  BY <1>3, FS_CardinalityType
<1>6. IsFiniteSet(others) /\ Cardinality(others) = Cardinality(Lanes)
  <2>1. IsFiniteSet(Writers \ {w}) /\ Cardinality(Writers \ {w}) = Cardinality(Writers) - 1
    BY <1>4, FS_RemoveElement
  <2> QED BY <1>1, <1>4, <1>5, <2>1
<1>7. IsFiniteSet(fds) /\ Cardinality(fds) <= Cardinality(others)
  <2>1. PICK g : g = [v \in others |-> job[v].fd]
    OBVIOUS
  <2>2. g \in Surjection(others, fds)
    BY <2>1, <1>2 DEF Surjection
  <2> QED BY <2>2, <1>6, FS_Surjection
<1>8. PICK used : used = fds \cup {file[p]}
  OBVIOUS
<1>9. IsFiniteSet(used) /\ Cardinality(used) <= Cardinality(fds) + 1 /\ Cardinality(used) \in Nat
  <2>1. Cardinality(fds) \in Nat
    BY <1>7, FS_CardinalityType
  <2>2. IsFiniteSet(used)
    BY <1>7, <1>8, FS_AddElement
  <2>3. Cardinality(used) = Cardinality(fds) \/ Cardinality(used) = Cardinality(fds) + 1
    BY <1>7, <1>8, FS_AddElement
  <2> QED BY <2>1, <2>2, <2>3
<1>10. ~(Inodes \subseteq used)
  <2> SUFFICES ASSUME Inodes \subseteq used PROVE FALSE
    OBVIOUS
  <2>1. Cardinality(Inodes) <= Cardinality(used)
    BY <1>9, FS_Subset
  <2>2. Cardinality(fds) \in Nat
    BY <1>7, FS_CardinalityType
  <2> QED BY <2>1, <2>2, <1>3, <1>5, <1>6, <1>7, <1>9
<1>11. PICK new \in Inodes : new \notin used
  BY <1>10
<1>12. \A v \in Writers : ~Used(v, p, new)
  <2> SUFFICES ASSUME NEW v \in Writers, job[v].fd = new PROVE FALSE
    BY DEF Used
  <2>1. CASE v = w
    BY <2>1, <1>3
  <2>2. CASE v # w
    BY <2>2, <1>1, <1>2, <1>8, <1>11
  <2> QED BY <2>1, <2>2
<1> QED
  BY <1>8, <1>11, <1>12

\* What is visible is backed, and is a content.
LEMMA VisibleFacts ==
    ASSUME FilesType, FilesBacked, NEW p \in Paths
    PROVE  Visible(p) \subseteq Backing(p) /\ Visible(p) \in Content
<1>1. CASE file[p] = None \/ data[p][file[p]] = Partial
  BY <1>1 DEF Visible, Content
<1>2. CASE ~(file[p] = None \/ data[p][file[p]] = Partial)
  <2>1. file[p] \in Inodes
    BY <1>2 DEF FilesType
  <2>2. Visible(p) = data[p][file[p]]
    BY <1>2 DEF Visible
  <2> QED BY <1>2, <2>1, <2>2 DEF FilesType, FilesBacked
<1> QED BY <1>1, <1>2

\* A resting writer has nothing that must be backed.
LEMMA RestingFacts ==
    /\ Resting \in JobRecord
    /\ JobBacked(Resting)'
    /\ Resting.at = "idle"
  BY DEF Resting, JobRecord, Content, JobBacked, Busy

\* Nothing loses its backing: facts are only added and a published path stays published.
Grows ==
    /\ \A q \in Qblocks : stored[q] \subseteq stored'[q]
    /\ \A q \in Qblocks : file[q] # None => file'[q] # None

\* What backs a path then backs it still.
LEMMA BackingGrows ==
    ASSUME Grows
    PROVE  \A p \in Paths : Backing(p) \subseteq Backing(p)'
  BY FilesAssumption DEF Grows, Backing, Paths

\* One writer's new record is enough to look at.
LEMMA OneJob ==
    ASSUME FilesType, FilesBacked, Grows, NEW w \in Writers, NEW j,
           job' = [job EXCEPT ![w] = j], j \in JobRecord, JobBacked(j)'
    PROVE  job' \in [Writers -> JobRecord] /\ \A v \in Writers : JobBacked(job[v])'
<1>1. job' \in [Writers -> JobRecord]
  BY DEF FilesType
<1>2. ASSUME NEW v \in Writers PROVE JobBacked(job[v])'
  <2>1. CASE v = w
    <3>1. job'[v] = j
      BY <2>1 DEF FilesType
    <3> QED BY <3>1 DEF JobBacked
  <2>2. CASE v # w
    <3>1. PICK m : m = job[v]
      OBVIOUS
    <3>2. job'[v] = m /\ JobBacked(m)
      BY <2>2, <3>1 DEF FilesType, FilesBacked
    <3> QED BY <3>2, BackingGrows DEF JobBacked
  <2> QED BY <2>1, <2>2
<1> QED BY <1>1, <1>2

\* Neither is more than the changed inode.
LEMMA DataBacked ==
    ASSUME FilesBacked, Grows,
           \A p \in Paths, i \in Inodes :
              \/ data'[p][i] = data[p][i] \/ data'[p][i] = Partial
              \/ data'[p][i] \subseteq Backing(p)'
    PROVE  \A p \in Paths, i \in Inodes :
              data'[p][i] = Partial \/ data'[p][i] \subseteq Backing(p)'
  BY BackingGrows DEF FilesBacked
-----------------------------------------------------------------------------
(* The files: the steps *)

\* An action that leaves the store and the paths alone takes no backing away.
LEMMA GrowsUnchanged ==
    ASSUME UNCHANGED <<stored, file>>
    PROVE  Grows
  BY DEF Grows

\* The sweep's view of the files: a step that keeps the sweep's variables and the
\* maintenance's own record keeps it.
LEMMA SweepKept ==
    ASSUME SweepOK, Grows, due \subseteq Qblocks, UNCHANGED sweepVars,
           \/ job'[Maintain].at \in Busy /\ job'[Maintain].path = job[Maintain].path
           \/ job[Maintain].at \notin Busy
    PROVE  SweepOK'
  BY DEF SweepOK, NarrowedIsComplete, Grows, sweepVars

\* What is typed but not touched.
LEMMA RestOfType ==
    ASSUME FilesType, UNCHANGED <<stored, old, settled, todo, due>>,
           job' \in [Writers -> JobRecord],
           file' \in [Paths -> Inodes \cup {None}], temp' \in [Paths -> Inodes \cup {None}],
           data' \in [Paths -> [Inodes -> Content]]
    PROVE  FilesType'
  BY DEF FilesType

\* write_qblock_merged and add_to_manifest read a file.
LEMMA ReadStep ==
    ASSUME FilesInv, NEW w \in Writers, Read(w)
    PROVE  FilesInv'
<1>1. FilesType /\ FilesBacked /\ SweepOK
  BY DEF FilesInv
<1>2. UNCHANGED <<stored, old, settled, fileVars, sweepVars>>
  BY DEF Read
<1>3. Grows
  BY <1>2, GrowsUnchanged DEF fileVars
<1>4. PICK m : m = job[w]
  OBVIOUS
<1>5. m \in JobRecord /\ JobBacked(m) /\ m.at = "read"
  BY <1>1, <1>4 DEF FilesType, FilesBacked, Read
<1>6. m.path \in Paths /\ m.add \subseteq Backing(m.path) /\ m.fd = None
  BY <1>5 DEF JobBacked, Busy
<1>7. PICK d : d = Visible(m.path) \cup m.add
  OBVIOUS
<1>8. d \in Content /\ d \subseteq Backing(m.path)
  <2>1. Visible(m.path) \in Content /\ Visible(m.path) \subseteq Backing(m.path)
    BY <1>1, <1>6, VisibleFacts
  <2>2. m.add \in Content
    BY <1>5 DEF JobRecord
  <2> QED BY <1>6, <1>7, <2>1, <2>2 DEF Content
<1>9. PICK j : j = [m EXCEPT !.at = "open", !.add = {}, !.doc = d]
  OBVIOUS
<1>10. j.at = "open" /\ j.path = m.path /\ j.add = {} /\ j.doc = d /\ j.fd = None
  BY <1>5, <1>6, <1>9 DEF JobRecord
<1>11. j \in JobRecord
  <2>1. {} \in Content /\ "open" \in Busy
    BY DEF Content, Busy
  <2> QED BY <1>5, <1>8, <1>9, <2>1 DEF JobRecord
<1>12. JobBacked(j)'
  <2>1. Backing(m.path) \subseteq Backing(m.path)'
    BY <1>3, <1>6, BackingGrows
  <2> QED BY <1>6, <1>8, <1>10, <2>1 DEF JobBacked
<1>13. job' = [job EXCEPT ![w] = j]
  BY <1>1, <1>4, <1>7, <1>9 DEF Read, FilesType
<1>14. job' \in [Writers -> JobRecord] /\ \A v \in Writers : JobBacked(job[v])'
  BY <1>1, <1>3, <1>11, <1>12, <1>13, OneJob
<1>15. FilesType'
  BY <1>1, <1>2, <1>14, RestOfType DEF FilesType, fileVars, sweepVars
<1>16. FilesBacked'
  BY <1>1, <1>2, <1>3, <1>14, BackingGrows DEF FilesBacked, fileVars
<1>17. SweepOK'
  <2>1. job'[Maintain] = IF Maintain = w THEN j ELSE job[Maintain]
    BY <1>1, <1>13 DEF FilesType, Writers
  <2>2. \/ job'[Maintain].at \in Busy /\ job'[Maintain].path = job[Maintain].path
        \/ job[Maintain].at \notin Busy
    BY <1>4, <1>10, <2>1 DEF Busy
  <2> QED BY <1>1, <1>2, <1>3, <2>2, SweepKept DEF FilesType
<1> QED BY <1>15, <1>16, <1>17 DEF FilesInv

\* atomic_write opens the temporary file.
LEMMA OpenStep ==
    ASSUME FilesInv, NEW w \in Writers, Open(w)
    PROVE  FilesInv'
<1>1. FilesType /\ FilesBacked /\ SweepOK
  BY DEF FilesInv
<1>2. UNCHANGED <<stored, old, settled, file, sweepVars>>
  BY DEF Open
<1>3. Grows
  BY <1>2, GrowsUnchanged
<1>4. PICK m : m = job[w]
  OBVIOUS
<1>5. m \in JobRecord /\ JobBacked(m) /\ m.at = "open"
  BY <1>1, <1>4 DEF FilesType, FilesBacked, Open
<1>6. PICK p : p = m.path
  OBVIOUS
<1>7. p \in Paths /\ m.add \subseteq Backing(p) /\ m.doc \subseteq Backing(p) /\ m.fd = None
  BY <1>5, <1>6 DEF JobBacked, Busy
<1>8. PICK i \in Inodes :
         /\ temp' = [temp EXCEPT ![p] = i]
         /\ data' = [data EXCEPT ![p][i] = Partial]
         /\ job' = [job EXCEPT ![w].at = "write", ![w].fd = i]
  <2>1. PICK i : i = IF temp[p] # None THEN temp[p]
                     ELSE CHOOSE new \in Inodes :
                            new # file[p] /\ \A v \in Writers : ~Used(v, p, new)
    OBVIOUS
  <2>2. /\ temp' = [temp EXCEPT ![p] = i]
        /\ data' = [data EXCEPT ![p][i] = Partial]
        /\ job' = [job EXCEPT ![w].at = "write", ![w].fd = i]
    BY <2>1, <1>4, <1>6 DEF Open
  <2>3. i \in Inodes
    <3>1. CASE temp[p] # None
      BY <2>1, <3>1, <1>1, <1>7 DEF FilesType
    <3>2. CASE temp[p] = None
      <4>1. \E new \in Inodes : new # file[p] /\ \A v \in Writers : ~Used(v, p, new)
        BY <1>1, <1>4, <1>7, FreeInode
      <4> QED BY <2>1, <3>2, <4>1
    <3> QED BY <3>1, <3>2
  <2> QED BY <2>2, <2>3
<1>9. PICK j : j = [m EXCEPT !.at = "write", !.fd = i]
  OBVIOUS
<1>10. j.at = "write" /\ j.path = p /\ j.add = m.add /\ j.doc = m.doc /\ j.fd = i
  BY <1>5, <1>6, <1>9 DEF JobRecord
<1>11. j \in JobRecord
  <2>1. "write" \in Busy
    BY DEF Busy
  <2> QED BY <1>5, <1>8, <1>9, <2>1 DEF JobRecord
<1>12. JobBacked(j)'
  <2>1. Backing(p) \subseteq Backing(p)'
    BY <1>3, <1>7, BackingGrows
  <2>2. i # None
    BY FilesAssumption
  <2> QED BY <1>7, <1>10, <2>1, <2>2 DEF JobBacked
<1>13. job' = [job EXCEPT ![w] = j]
  BY <1>1, <1>4, <1>8, <1>9 DEF FilesType
<1>14. job' \in [Writers -> JobRecord] /\ \A v \in Writers : JobBacked(job[v])'
  BY <1>1, <1>3, <1>11, <1>12, <1>13, OneJob
<1>15. data' \in [Paths -> [Inodes -> Content]]
  <2>1. Partial \in Content
    BY DEF Partial, Content
  <2> QED BY <1>1, <1>7, <1>8, <2>1 DEF FilesType
<1>16. temp' \in [Paths -> Inodes \cup {None}]
  BY <1>1, <1>7, <1>8 DEF FilesType
<1>17. FilesType'
  BY <1>1, <1>2, <1>14, <1>15, <1>16, RestOfType DEF FilesType, sweepVars
<1>18. FilesBacked'
  <2>1. \A q \in Paths, k \in Inodes : data'[q][k] = data[q][k] \/ data'[q][k] = Partial
    BY <1>1, <1>7, <1>8 DEF FilesType
  <2> QED BY <1>1, <1>3, <1>14, <2>1, DataBacked DEF FilesBacked
<1>19. SweepOK'
  <2>1. job'[Maintain] = IF Maintain = w THEN j ELSE job[Maintain]
    BY <1>1, <1>13 DEF FilesType, Writers
  <2>2. \/ job'[Maintain].at \in Busy /\ job'[Maintain].path = job[Maintain].path
        \/ job[Maintain].at \notin Busy
    BY <1>4, <1>6, <1>10, <2>1 DEF Busy
  <2> QED BY <1>1, <1>2, <1>3, <2>2, SweepKept DEF FilesType
<1> QED BY <1>17, <1>18, <1>19 DEF FilesInv

\* The bytes are written, whole or mixed with another writer's.
LEMMA WriteStep ==
    ASSUME FilesInv, NEW w \in Writers, Write(w)
    PROVE  FilesInv'
<1>1. FilesType /\ FilesBacked /\ SweepOK
  BY DEF FilesInv
<1>2. UNCHANGED <<stored, old, settled, file, temp, sweepVars>>
  BY DEF Write
<1>3. Grows
  BY <1>2, GrowsUnchanged
<1>4. PICK m : m = job[w]
  OBVIOUS
<1>5. m \in JobRecord /\ JobBacked(m) /\ m.at = "write"
  BY <1>1, <1>4 DEF FilesType, FilesBacked, Write
<1>6. PICK p, i : p = m.path /\ i = m.fd
  OBVIOUS
<1>7. p \in Paths /\ m.doc \subseteq Backing(p) /\ m.add \subseteq Backing(p) /\ i \in Inodes
  BY <1>5, <1>6 DEF JobBacked, Busy, JobRecord
<1>8. PICK d \in {m.doc, Partial} : data' = [data EXCEPT ![p][i] = d]
  BY <1>4, <1>6 DEF Write
<1>9. PICK j : j = [m EXCEPT !.at = "rename", !.doc = {}, !.fd = None]
  OBVIOUS
<1>10. j.at = "rename" /\ j.path = p /\ j.add = m.add /\ j.doc = {} /\ j.fd = None
  BY <1>5, <1>6, <1>9 DEF JobRecord
<1>11. j \in JobRecord
  <2>1. "rename" \in Busy /\ {} \in Content
    BY DEF Busy, Content
  <2> QED BY <1>5, <1>9, <2>1 DEF JobRecord
<1>12. JobBacked(j)'
  <2>1. Backing(p) \subseteq Backing(p)'
    BY <1>3, <1>7, BackingGrows
  <2> QED BY <1>7, <1>10, <2>1 DEF JobBacked
<1>13. job' = [job EXCEPT ![w] = j]
  BY <1>1, <1>4, <1>9 DEF Write, FilesType
<1>14. job' \in [Writers -> JobRecord] /\ \A v \in Writers : JobBacked(job[v])'
  BY <1>1, <1>3, <1>11, <1>12, <1>13, OneJob
<1>15. data' \in [Paths -> [Inodes -> Content]]
  <2>1. d \in Content
    BY <1>5 DEF Partial, Content, JobRecord
  <2> QED BY <1>1, <1>7, <1>8, <2>1 DEF FilesType
<1>16. FilesType'
  BY <1>1, <1>2, <1>14, <1>15, RestOfType DEF FilesType, sweepVars
<1>17. FilesBacked'
  <2>1. d = Partial \/ d \subseteq Backing(p)'
    BY <1>3, <1>7, BackingGrows
  <2>2. \A q \in Paths, k \in Inodes :
          data'[q][k] = data[q][k] \/ data'[q][k] = Partial
          \/ data'[q][k] \subseteq Backing(q)'
    BY <1>1, <1>7, <1>8, <2>1 DEF FilesType
  <2> QED BY <1>1, <1>3, <1>14, <2>2, DataBacked DEF FilesBacked
<1>18. SweepOK'
  <2>1. job'[Maintain] = IF Maintain = w THEN j ELSE job[Maintain]
    BY <1>1, <1>13 DEF FilesType, Writers
  <2>2. \/ job'[Maintain].at \in Busy /\ job'[Maintain].path = job[Maintain].path
        \/ job[Maintain].at \notin Busy
    BY <1>4, <1>6, <1>10, <2>1 DEF Busy
  <2> QED BY <1>1, <1>2, <1>3, <2>2, SweepKept DEF FilesType
<1> QED BY <1>16, <1>17, <1>18 DEF FilesInv
\* An inode without a path or a writer is dropped; no other changes.
LEMMA CollectFacts ==
    ASSUME FilesType, Collect
    PROVE  /\ data' \in [Paths -> [Inodes -> Content]]
           /\ \A p \in Paths, i \in Inodes : data'[p][i] = data[p][i] \/ data'[p][i] = Partial
<1>1. Partial \in Content
  BY DEF Partial, Content
<1>2. data' = [p \in Paths |-> [i \in Inodes |-> data'[p][i]]]
  BY DEF Collect
<1>3. \A p \in Paths, i \in Inodes : data'[p][i] = data[p][i] \/ data'[p][i] = Partial
  BY DEF Collect
<1>4. \A p \in Paths, i \in Inodes : data'[p][i] \in Content
  BY <1>1, <1>3 DEF FilesType
<1> QED
  BY <1>2, <1>3, <1>4

\* Where a writer goes after a file: only a lane that wrote a qblock's file lists it.
LEMMA ContinueFacts ==
    ASSUME FilesType, NEW w \in Writers, NEW ok, Continue(w, ok), job[w].path \in Paths
    PROVE  \E j \in JobRecord :
              /\ job' = [job EXCEPT ![w] = j] /\ j.fd = None
              /\ \/ /\ ok /\ w \in Lanes /\ job[w].path \in Qblocks
                    /\ j.at = "read" /\ j.path = Manifest /\ j.add = {job[w].path} /\ j.doc = {}
                 \/ j.at \notin Busy
<1>1. PICK j : j = CASE Listed(w, ok) ->
                           [Resting EXCEPT !.at = "read", !.path = Manifest,
                           !.add = {job[w].path}]
                     [] w = Maintain /\ job[w].path # Manifest -> [Resting EXCEPT !.at = "next"]
                     [] OTHER -> Resting
  OBVIOUS
<1>2. job' = [job EXCEPT ![w] = j]
  BY <1>1 DEF Continue
<1>3. CASE Listed(w, ok)
  <2>1. ok /\ w \in Lanes /\ job[w].path \in Qblocks
    BY <1>3 DEF Listed, Paths
  <2>2. w # Maintain
    BY <2>1, FilesAssumption
  <2>3. j = [Resting EXCEPT !.at = "read", !.path = Manifest, !.add = {job[w].path}]
    BY <1>1, <1>3, <2>2
  <2>4. j = [at |-> "read", path |-> Manifest, add |-> {job[w].path}, doc |-> {}, fd |-> None]
    BY <2>3 DEF Resting
  <2>5. j \in JobRecord
    BY <2>1, <2>4 DEF JobRecord, Busy, Content, Paths
  <2> QED BY <1>2, <2>1, <2>4, <2>5
<1>4. CASE ~Listed(w, ok)
  <2>1. j = Resting \/ j = [Resting EXCEPT !.at = "next"]
    BY <1>1, <1>4
  <2>2. j \in JobRecord /\ j.fd = None /\ j.at \notin Busy
    BY <2>1 DEF JobRecord, Busy, Content, Resting
  <2> QED BY <1>2, <2>2
<1> QED BY <1>3, <1>4

\* The sweep's view again: what the maintenance was writing is published, or the pass is
\* no longer complete.
LEMMA SweepMoves ==
    ASSUME SweepOK, Grows, due \subseteq Qblocks, UNCHANGED <<todo, due, narrow>>,
           complete' => complete,
           \A q \in due : complete' /\ job[Maintain].at \in Busy /\ job[Maintain].path = q =>
              file'[q] # None \/ (job'[Maintain].at \in Busy /\ job'[Maintain].path = q)
    PROVE  SweepOK'
  BY DEF SweepOK, NarrowedIsComplete, Grows

\* What a failed restore does to the pass.
LEMMA CompleteFacts ==
    ASSUME NEW w, NEW ok, complete' = Complete(w, ok)
    PROVE  complete' => complete /\ ~(w = Maintain /\ job[w].path # Manifest /\ ~ok)
  BY Zenon DEF Complete

\* The rename publishes whatever the temporary name refers to by then.
LEMMA RenameStep ==
    ASSUME FilesInv, NEW w \in Writers, Rename(w)
    PROVE  FilesInv'
<1>1. FilesType /\ FilesBacked /\ SweepOK
  BY DEF FilesInv
<1>2. UNCHANGED <<stored, old, settled, todo, due, narrow>>
  BY DEF Rename
<1>3. PICK p : p = job[w].path
  OBVIOUS
<1>4. p \in Paths /\ job[w].at \in Busy
  BY <1>1, <1>3 DEF FilesBacked, JobBacked, Rename, Busy
<1>5. PICK ok : ok = (temp[p] # None)
  OBVIOUS
<1>6. /\ file' = (IF ok THEN [file EXCEPT ![p] = temp[p]] ELSE file)
      /\ temp' = [temp EXCEPT ![p] = None]
      /\ Continue(w, ok) /\ complete' = Complete(w, ok) /\ Collect
  BY <1>3, <1>5 DEF Rename
<1>7. /\ file' \in [Paths -> Inodes \cup {None}] /\ temp' \in [Paths -> Inodes \cup {None}]
      /\ ok => file'[p] # None
      /\ \A q \in Paths : file[q] # None => file'[q] # None
  BY <1>1, <1>4, <1>5, <1>6 DEF FilesType
<1>8. Grows
  BY <1>2, <1>7 DEF Grows, Paths
<1>9. PICK j \in JobRecord :
         /\ job' = [job EXCEPT ![w] = j] /\ j.fd = None
         /\ \/ /\ ok /\ w \in Lanes /\ p \in Qblocks
               /\ j.at = "read" /\ j.path = Manifest /\ j.add = {p} /\ j.doc = {}
            \/ j.at \notin Busy
  BY <1>1, <1>3, <1>4, <1>6, ContinueFacts
<1>10. JobBacked(j)'
  <2>1. CASE /\ ok /\ p \in Qblocks
             /\ j.at = "read" /\ j.path = Manifest /\ j.add = {p} /\ j.doc = {}
    <3>1. p \in Backing(Manifest)'
      BY <2>1, <1>7 DEF Backing
    <3> QED BY <2>1, <3>1, <1>9 DEF JobBacked, Paths
  <2>2. CASE j.at \notin Busy
    BY <2>2, <1>9 DEF JobBacked, Busy
  <2> QED BY <1>9, <2>1, <2>2
<1>11. job' \in [Writers -> JobRecord] /\ \A v \in Writers : JobBacked(job[v])'
  BY <1>1, <1>8, <1>9, <1>10, OneJob
<1>12. FilesType'
  BY <1>1, <1>2, <1>6, <1>7, <1>11, CollectFacts, RestOfType
<1>13. FilesBacked'
  <2>1. \A q \in Paths, k \in Inodes : data'[q][k] = data[q][k] \/ data'[q][k] = Partial
    BY <1>1, <1>6, CollectFacts
  <2> QED BY <1>1, <1>8, <1>11, <2>1, DataBacked DEF FilesBacked
<1>14. SweepOK'
  <2>1. complete' => complete /\ ~(w = Maintain /\ p # Manifest /\ ~ok)
    <3>1. complete' = Complete(w, ok)
      BY <1>6
    <3> QED BY Zenon, <1>3, <3>1 DEF Complete
  <2>2. w # Maintain => job'[Maintain] = job[Maintain]
    BY <1>1, <1>9 DEF FilesType, Writers
  <2>3. ASSUME NEW q \in due, complete', job[Maintain].path = q, job[Maintain].at \in Busy
        PROVE  file'[q] # None \/ (job'[Maintain].at \in Busy /\ job'[Maintain].path = q)
    <3>1. CASE w # Maintain
      BY <2>2, <2>3, <3>1
    <3>2. CASE w = Maintain
      <4>1. q \in Qblocks /\ q = p
        BY <1>1, <1>3, <2>3, <3>2 DEF FilesType
      <4>2. q # Manifest
        BY <4>1, FilesAssumption
      <4> QED BY <1>7, <2>1, <2>3, <3>2, <4>1, <4>2
    <3> QED BY <3>1, <3>2
  <2> QED BY <1>1, <1>2, <1>8, <2>1, <2>3, SweepMoves DEF FilesType
<1> QED BY <1>12, <1>13, <1>14 DEF FilesInv

\* Any of the steps fails: the writer goes on without having written.
LEMMA FailStep ==
    ASSUME FilesInv, NEW w \in Writers, Fail(w)
    PROVE  FilesInv'
<1>1. FilesType /\ FilesBacked /\ SweepOK
  BY DEF FilesInv
<1>2. UNCHANGED <<stored, old, settled, file, temp, todo, due, narrow>> /\ Collect
  BY DEF Fail
<1>3. PICK p : p = job[w].path
  OBVIOUS
<1>4. p \in Paths /\ job[w].at \in Busy
  BY <1>1, <1>3 DEF FilesBacked, JobBacked, Fail, Busy
<1>5. Grows
  BY <1>2, GrowsUnchanged
<1>6. PICK ok : ok = FALSE
  OBVIOUS
<1>7. Continue(w, ok) /\ complete' = Complete(w, ok)
  BY <1>6 DEF Fail
<1>8. PICK j \in JobRecord : job' = [job EXCEPT ![w] = j] /\ j.fd = None /\ j.at \notin Busy
  BY <1>1, <1>3, <1>4, <1>6, <1>7, ContinueFacts
<1>9. JobBacked(j)'
  BY <1>8 DEF JobBacked, Busy
<1>10. job' \in [Writers -> JobRecord] /\ \A v \in Writers : JobBacked(job[v])'
  BY <1>1, <1>5, <1>8, <1>9, OneJob
<1>11. FilesType'
  BY <1>1, <1>2, <1>10, CollectFacts, RestOfType DEF FilesType
<1>12. FilesBacked'
  <2>1. \A q \in Paths, k \in Inodes : data'[q][k] = data[q][k] \/ data'[q][k] = Partial
    BY <1>1, <1>2, CollectFacts
  <2> QED BY <1>1, <1>5, <1>10, <2>1, DataBacked DEF FilesBacked
<1>13. SweepOK'
  <2>1. complete' => complete /\ ~(w = Maintain /\ p # Manifest)
    BY <1>3, <1>6, <1>7, CompleteFacts
  <2>2. w # Maintain => job'[Maintain] = job[Maintain]
    BY <1>1, <1>8 DEF FilesType, Writers
  <2>3. ASSUME NEW q \in due, complete', job[Maintain].path = q, job[Maintain].at \in Busy
        PROVE  file'[q] # None \/ (job'[Maintain].at \in Busy /\ job'[Maintain].path = q)
    <3>1. CASE w # Maintain
      BY <2>2, <2>3, <3>1
    <3>2. CASE w = Maintain
      BY <1>1, <1>3, <2>1, <2>3, <3>2, FilesAssumption DEF FilesType
    <3> QED BY <3>1, <3>2
  <2> QED BY <1>1, <1>2, <1>5, <2>1, <2>3, SweepMoves DEF FilesType
<1> QED BY <1>11, <1>12, <1>13 DEF FilesInv
\* commit_block, then write_files.
LEMMA IndexStep ==
    ASSUME FilesInv, NEW w \in Lanes, Index(w)
    PROVE  FilesInv'
<1>1. FilesType /\ FilesBacked /\ SweepOK
  BY DEF FilesInv
<1>2. UNCHANGED <<old, settled, fileVars, sweepVars>>
  BY DEF Index
<1>3. PICK q \in Qblocks, f \in Facts :
         /\ stored' = [stored EXCEPT ![q] = @ \cup {f}]
         /\ job' = [job EXCEPT ![w] = [Resting EXCEPT !.at = "read", !.path = q, !.add = {f}]]
  BY DEF Index, Commit
<1>4. Grows
  BY <1>1, <1>2, <1>3 DEF Grows, FilesType, fileVars
<1>5. PICK j : j = [Resting EXCEPT !.at = "read", !.path = q, !.add = {f}]
  OBVIOUS
<1>6. j = [at |-> "read", path |-> q, add |-> {f}, doc |-> {}, fd |-> None]
  BY <1>5 DEF Resting
<1>7. j \in JobRecord
  BY <1>6 DEF JobRecord, Busy, Content, Paths
<1>8. JobBacked(j)'
  <2>1. q # Manifest /\ f \in stored'[q]
    BY <1>1, <1>3, FilesAssumption DEF FilesType
  <2> QED BY <1>6, <2>1 DEF JobBacked, Backing, Paths
<1>9. w \in Writers /\ w # Maintain
  BY FilesAssumption DEF Writers
<1>10. job' \in [Writers -> JobRecord] /\ \A v \in Writers : JobBacked(job[v])'
  BY <1>1, <1>3, <1>4, <1>5, <1>7, <1>8, <1>9, OneJob
<1>11. FilesType'
  <2>1. stored' \in [Qblocks -> SUBSET Facts]
    BY <1>1, <1>3 DEF FilesType
  <2> QED BY <1>1, <1>2, <1>10, <2>1 DEF FilesType, fileVars, sweepVars
<1>12. FilesBacked'
  BY <1>1, <1>2, <1>4, <1>10, BackingGrows DEF FilesBacked, fileVars
<1>13. SweepOK'
  <2>1. job'[Maintain] = job[Maintain]
    BY <1>1, <1>3, <1>9 DEF FilesType, Writers
  <2> QED BY <1>1, <1>2, <1>4, <2>1, SweepKept DEF FilesType
<1> QED BY <1>11, <1>12, <1>13 DEF FilesInv

\* The maintenance moves on without a file in hand.
LEMMA MaintainMoves ==
    ASSUME FilesInv, NEW place \in {"next", "walk"}, To(Maintain, place),
           job[Maintain].at \notin Busy, UNCHANGED <<stored, file>>
    PROVE  /\ job' \in [Writers -> JobRecord] /\ \A v \in Writers : JobBacked(job[v])'
           /\ job'[Maintain].at = place
<1>1. FilesType /\ FilesBacked /\ Grows /\ Maintain \in Writers
  BY GrowsUnchanged DEF FilesInv, Writers
<1>2. PICK m : m = job[Maintain]
  OBVIOUS
<1>3. m \in JobRecord /\ JobBacked(m) /\ m.at \notin Busy
  BY <1>1, <1>2 DEF FilesType, FilesBacked
<1>4. PICK j : j = [m EXCEPT !.at = place]
  OBVIOUS
<1>5. j.at = place /\ j.fd = m.fd /\ place \notin Busy /\ place # "write"
  BY <1>3, <1>4 DEF JobRecord, Busy
<1>6. j \in JobRecord
  BY <1>3, <1>4 DEF JobRecord
<1>7. JobBacked(j)'
  BY <1>3, <1>5 DEF JobBacked, Busy
<1>8. job' = [job EXCEPT ![Maintain] = j]
  BY <1>1, <1>2, <1>4 DEF To, FilesType
<1> QED
  BY <1>1, <1>5, <1>6, <1>7, <1>8, OneJob DEF FilesType

\* A pass over the winners begins, or the query for them fails.
LEMMA SweepStep ==
    ASSUME FilesInv, Sweep
    PROVE  FilesInv'
<1>1. FilesType /\ FilesBacked /\ SweepOK
  BY DEF FilesInv
<1>2. UNCHANGED <<stored, old, settled, fileVars>> /\ job[Maintain].at = "idle"
  BY DEF Sweep
<1>3. Grows /\ job[Maintain].at \notin Busy
  BY <1>2, GrowsUnchanged DEF fileVars, Busy
<1>4. PICK place \in {"next", "walk"} : To(Maintain, place)
  BY DEF Sweep
<1>5. job' \in [Writers -> JobRecord] /\ \A v \in Writers : JobBacked(job[v])'
  BY <1>2, <1>3, <1>4, MaintainMoves DEF fileVars
<1>6. FilesBacked'
  BY <1>1, <1>2, <1>3, <1>5, BackingGrows DEF FilesBacked, fileVars
<1>7. todo' \subseteq Qblocks /\ due' \subseteq Qblocks
  BY <1>1 DEF Sweep, FilesType, sweepVars
<1>8. FilesType'
  BY <1>1, <1>2, <1>5, <1>7 DEF FilesType, fileVars
<1>9. SweepOK'
  <2>1. CASE UNCHANGED sweepVars
    BY <1>1, <1>3, <2>1, SweepKept DEF FilesType
  <2>2. CASE due' = (IF narrow THEN due ELSE todo') /\ UNCHANGED narrow
    <3>1. CASE narrow
      <4>1. due' = due /\ narrow'
        BY <2>2, <3>1
      <4> QED BY <1>1, <1>3, <3>1, <4>1 DEF SweepOK, NarrowedIsComplete, Grows, FilesType
    <3>2. CASE ~narrow
      BY <2>2, <3>2 DEF SweepOK, NarrowedIsComplete
    <3> QED BY <3>1, <3>2
  <2> QED BY <2>1, <2>2 DEF Sweep
<1> QED BY <1>6, <1>8, <1>9 DEF FilesInv

\* One winner of the pass.
LEMMA RestoreStep ==
    ASSUME FilesInv, Restore
    PROVE  FilesInv'
<1>1. FilesType /\ FilesBacked /\ SweepOK
  BY DEF FilesInv
<1>2. UNCHANGED <<stored, old, settled, fileVars, due, narrow>> /\ job[Maintain].at = "next"
  BY DEF Restore
<1>3. Grows /\ job[Maintain].at \notin Busy
  BY <1>2, GrowsUnchanged DEF fileVars, Busy
<1>4. PICK q \in todo :
         /\ todo' = todo \ {q}
         /\ \/ file[q] # None /\ UNCHANGED <<job, complete>>
            \/ /\ file[q] = None
               /\ job' = [job EXCEPT ![Maintain] =
                            [Resting EXCEPT !.at = "read", !.path = q, !.add = stored[q]]]
               /\ UNCHANGED complete
            \/ complete' = FALSE /\ UNCHANGED job
  BY DEF Restore
<1>5. q \in Qblocks /\ q # Manifest
  BY <1>1, <1>4, FilesAssumption DEF FilesType
<1>6. PICK j : j = [Resting EXCEPT !.at = "read", !.path = q, !.add = stored[q]]
  OBVIOUS
<1>7. j = [at |-> "read", path |-> q, add |-> stored[q], doc |-> {}, fd |-> None]
  BY <1>6 DEF Resting
<1>8. j \in JobRecord /\ JobBacked(j)'
  <2>1. stored[q] \in Content
    BY <1>1, <1>5 DEF FilesType, Content
  <2>2. j \in JobRecord
    BY <1>5, <1>7, <2>1 DEF JobRecord, Busy, Content, Paths
  <2> QED BY <1>2, <1>5, <1>7, <2>2 DEF JobBacked, Backing, Paths
<1>9. job' \in [Writers -> JobRecord] /\ \A v \in Writers : JobBacked(job[v])'
  <2>1. CASE UNCHANGED job
    <3>1. \A v \in Writers : JobBacked(job[v])'
      <4> SUFFICES ASSUME NEW v \in Writers PROVE JobBacked(job[v])'
        OBVIOUS
      <4>1. JobBacked(job[v])
        BY <1>1 DEF FilesBacked
      <4> QED BY <4>1, <2>1, <1>3, BackingGrows DEF JobBacked
    <3> QED BY <3>1, <2>1, <1>1 DEF FilesType
  <2>2. CASE job' = [job EXCEPT ![Maintain] = j]
    <3>1. Maintain \in Writers
      BY DEF Writers
    <3> QED BY <1>1, <1>3, <1>8, <2>2, <3>1, OneJob
  <2> QED BY <1>4, <1>6, <2>1, <2>2
<1>10. FilesBacked'
  BY <1>1, <1>2, <1>3, <1>9, BackingGrows DEF FilesBacked, fileVars
<1>11. FilesType'
  BY <1>1, <1>2, <1>4, <1>9 DEF FilesType, fileVars
<1>12. SweepOK'
  <2>1. NarrowedIsComplete'
    BY <1>1, <1>2 DEF SweepOK, NarrowedIsComplete, fileVars
  <2>2. ASSUME complete', ~narrow', NEW x \in due'
        PROVE  \/ file'[x] # None \/ x \in todo'
               \/ (job'[Maintain].at \in Busy /\ job'[Maintain].path = x)
    <3>1. complete /\ ~narrow /\ x \in due
      BY <1>2, <1>4, <2>2
    <3>2. file[x] # None \/ x \in todo
      BY <1>1, <1>3, <3>1 DEF SweepOK
    <3>3. CASE x # q
      BY <1>2, <1>4, <3>2, <3>3 DEF fileVars
    <3>4. CASE x = q /\ file[q] # None
      BY <1>2, <3>4 DEF fileVars
    <3>5. CASE x = q /\ file[q] = None
      <4>1. job' = [job EXCEPT ![Maintain] = j]
        BY <1>4, <1>6, <2>2, <3>5
      <4>2. job'[Maintain] = j
        BY <1>1, <4>1 DEF FilesType, Writers
      <4> QED BY <1>7, <3>5, <4>2 DEF Busy
    <3> QED BY <3>3, <3>4, <3>5
  <2> QED BY <2>1, <2>2 DEF SweepOK
<1> QED BY <1>10, <1>11, <1>12 DEF FilesInv
\* The end of the pass: the window is narrowed if the pass was complete.
LEMMA EndSweepStep ==
    ASSUME FilesInv, EndSweep
    PROVE  FilesInv'
<1>1. FilesType /\ FilesBacked /\ SweepOK
  BY DEF FilesInv
<1>2. /\ UNCHANGED <<stored, old, settled, fileVars, todo, due, complete>>
      /\ job[Maintain].at = "next" /\ todo = {} /\ To(Maintain, "walk")
      /\ narrow' = (narrow \/ complete)
  BY DEF EndSweep
<1>3. Grows /\ job[Maintain].at \notin Busy
  BY <1>2, GrowsUnchanged DEF fileVars, Busy
<1>4. job' \in [Writers -> JobRecord] /\ \A v \in Writers : JobBacked(job[v])'
  BY <1>2, <1>3, MaintainMoves DEF fileVars
<1>5. FilesBacked'
  BY <1>1, <1>2, <1>3, <1>4, BackingGrows DEF FilesBacked, fileVars
<1>6. FilesType'
  BY <1>1, <1>2, <1>4 DEF FilesType, fileVars
<1>7. SweepOK'
  <2>1. narrow \/ complete => \A q \in due : file[q] # None
    BY <1>1, <1>2, <1>3 DEF SweepOK, NarrowedIsComplete
  <2>2. (narrow' => narrow \/ complete) /\ (complete' => narrow')
    BY Zenon, <1>2
  <2> QED BY <1>2, <2>1, <2>2 DEF SweepOK, NarrowedIsComplete, fileVars
<1> QED BY <1>5, <1>6, <1>7 DEF FilesInv

\* rebuild_manifests lists every file there is.
LEMMA WalkStep ==
    ASSUME FilesInv, Walk
    PROVE  FilesInv'
<1>1. FilesType /\ FilesBacked /\ SweepOK
  BY DEF FilesInv
<1>2. UNCHANGED <<stored, old, settled, fileVars, sweepVars>> /\ job[Maintain].at = "walk"
  BY DEF Walk
<1>3. Grows /\ job[Maintain].at \notin Busy
  BY <1>2, GrowsUnchanged DEF fileVars, Busy
<1>4. PICK there : there = {q \in Qblocks : file[q] # None}
  OBVIOUS
<1>5. PICK j : j = [Resting EXCEPT !.at = "open", !.path = Manifest, !.doc = there]
  OBVIOUS
<1>6. j = [at |-> "open", path |-> Manifest, add |-> {}, doc |-> there, fd |-> None]
  BY <1>5 DEF Resting
<1>7. j \in JobRecord
  BY <1>4, <1>6 DEF JobRecord, Busy, Content, Paths
<1>8. JobBacked(j)'
  <2>1. Backing(Manifest)' = there
    BY <1>2, <1>4 DEF Backing, fileVars
  <2> QED BY <1>6, <2>1 DEF JobBacked, Paths
<1>9. job' = [job EXCEPT ![Maintain] = j] /\ Maintain \in Writers
  BY <1>4, <1>5 DEF Walk, Writers
<1>10. job' \in [Writers -> JobRecord] /\ \A v \in Writers : JobBacked(job[v])'
  BY <1>1, <1>3, <1>7, <1>8, <1>9, OneJob
<1>11. FilesBacked'
  BY <1>1, <1>2, <1>3, <1>10, BackingGrows DEF FilesBacked, fileVars
<1>12. FilesType'
  BY <1>1, <1>2, <1>10 DEF FilesType, fileVars, sweepVars
<1>13. SweepOK'
  BY <1>1, <1>2, <1>3, SweepKept DEF FilesType
<1> QED BY <1>11, <1>12, <1>13 DEF FilesInv

\* Time passes, or nothing happens.
LEMMA AgeStep ==
    ASSUME FilesInv, Age \/ UNCHANGED vars
    PROVE  FilesInv'
<1>1. FilesType /\ FilesBacked /\ SweepOK
  BY DEF FilesInv
<1>2. UNCHANGED <<stored, old, job, fileVars, sweepVars>> /\ settled' \subseteq Qblocks
  BY <1>1 DEF Age, vars, FilesType
<1>3. Grows
  BY <1>2, GrowsUnchanged DEF fileVars
<1>4. FilesType'
  BY <1>1, <1>2 DEF FilesType, fileVars, sweepVars
<1>5. FilesBacked'
  <2>1. \A v \in Writers : JobBacked(job[v])'
    <3> SUFFICES ASSUME NEW v \in Writers PROVE JobBacked(job[v])'
      OBVIOUS
    <3>1. JobBacked(job[v])
      BY <1>1 DEF FilesBacked
    <3> QED BY <3>1, <1>2, <1>3, BackingGrows DEF JobBacked
  <2> QED BY <1>1, <1>2, <1>3, <2>1, BackingGrows DEF FilesBacked, fileVars
<1>6. SweepOK'
  BY <1>1, <1>2 DEF SweepOK, NarrowedIsComplete, fileVars, sweepVars
<1> QED BY <1>4, <1>5, <1>6 DEF FilesInv

\* The process ends; what is at the paths stays.
LEMMA FilesCrashStep ==
    ASSUME FilesInv, Crash
    PROVE  FilesInv'
<1>1. FilesType /\ FilesBacked /\ SweepOK
  BY DEF FilesInv
<1>2. UNCHANGED <<stored, old, settled, file, temp>> /\ Collect
  BY DEF Crash
<1>3. Grows
  BY <1>2, GrowsUnchanged
<1>4. \A v \in Writers : job'[v] = Resting
  BY DEF Crash
<1>5. job' \in [Writers -> JobRecord]
  BY RestingFacts DEF Crash
<1>6. \A v \in Writers : JobBacked(job[v])'
  BY <1>4 DEF JobBacked, Resting, Busy
<1>7. FilesType'
  BY <1>1, <1>2, <1>5, CollectFacts DEF FilesType, Crash
<1>8. FilesBacked'
  BY <1>1, <1>2, <1>3, <1>6, CollectFacts, DataBacked DEF FilesBacked
<1>9. SweepOK'
  BY DEF Crash, SweepOK, NarrowedIsComplete
<1> QED BY <1>7, <1>8, <1>9 DEF FilesInv

\* The invariant holds in every reachable state.
LEMMA FilesInvariance == Spec => []FilesInv
<1>1. Init => FilesInv
  <2> SUFFICES ASSUME Init PROVE FilesInv
    OBVIOUS
  <2>1. FilesType
    <3>1. job \in [Writers -> JobRecord]
      BY RestingFacts DEF Init
    <3>2. data \in [Paths -> [Inodes -> Content]]
      BY DEF Init, Partial, Content
    <3> QED BY <3>1, <3>2 DEF Init, FilesType
  <2>2. FilesBacked
    <3>1. \A w \in Writers : JobBacked(job[w])
      BY DEF Init, JobBacked, Resting, Busy
    <3> QED BY <3>1 DEF Init, FilesBacked
  <2>3. SweepOK
    BY DEF Init, SweepOK, NarrowedIsComplete
  <2> QED BY <2>1, <2>2, <2>3 DEF FilesInv
<1>2. FilesInv /\ [Next]_vars => FilesInv'
  <2> SUFFICES ASSUME FilesInv, [Next]_vars PROVE FilesInv'
    OBVIOUS
  <2>1. CASE \E w \in Writers : Read(w) \/ Open(w) \/ Write(w) \/ Rename(w) \/ Fail(w)
    BY <2>1, ReadStep, OpenStep, WriteStep, RenameStep, FailStep
  <2>2. CASE \E w \in Lanes : Index(w)
    BY <2>2, IndexStep
  <2>3. CASE Sweep \/ Restore \/ EndSweep \/ Walk
    BY <2>3, SweepStep, RestoreStep, EndSweepStep, WalkStep
  <2>4. CASE Age \/ Crash \/ UNCHANGED vars
    BY <2>4, AgeStep, FilesCrashStep
  <2> QED BY <2>1, <2>2, <2>3, <2>4 DEF Next
<1> QED
  BY <1>1, <1>2, PTL DEF Spec

\* atomic_write under one temporary name: whichever writer's inode a rename publishes, a
\* qblock file shows only facts that were committed, for any number of lanes.
THEOREM FilesShowTheStore == Spec => []PublishedIsStored
<1>1. FilesInv => PublishedIsStored
  <2> SUFFICES ASSUME FilesInv, NEW q \in Qblocks PROVE Visible(q) \subseteq stored[q]
    BY DEF PublishedIsStored
  <2>1. q \in Paths /\ q # Manifest
    BY FilesAssumption DEF Paths
  <2> QED BY <2>1, VisibleFacts DEF FilesInv, Backing
<1> QED
  BY <1>1, FilesInvariance, PTL

\* add_to_manifest and rebuild_manifests: the manifest lists a file only if it is there.
THEOREM ManifestIsHonest == Spec => []ListedExists
<1>1. FilesInv => ListedExists
  <2> SUFFICES ASSUME FilesInv, NEW q \in Visible(Manifest) PROVE file[q] # None
    BY DEF ListedExists
  <2>1. Manifest \in Paths
    BY DEF Paths
  <2> QED BY <2>1, VisibleFacts DEF FilesInv, Backing
<1> QED
  BY <1>1, FilesInvariance, PTL

\* restore_qblock_files narrows restore_since only when every winner of the history it
\* leaves behind has its file.
THEOREM WindowNarrowsSafely == Spec => []NarrowedIsComplete
<1>1. FilesInv => NarrowedIsComplete
  BY DEF FilesInv, SweepOK
<1> QED
  BY <1>1, FilesInvariance, PTL
-----------------------------------------------------------------------------
(* The chain: operators *)

\* A set of naturals with a bound has a greatest member.
LEMMA GreatestExists ==
    ASSUME NEW h \in Nat, NEW S \in SUBSET (0 .. h), S # {}
    PROVE  \E n \in S : \A m \in S : m <= n
  <1> DEFINE R == {ss \in Nat \X Nat : ss[1] < ss[2]}
  <1>1. IsWellFoundedOn(R, Nat)
    BY NatLessThanWellFounded, Zenon DEF OpToRel
  <1>2. PICK T : T = {h - n : n \in S}
    OBVIOUS
  <1>3. T \in SUBSET Nat /\ T # {}
    <2>1. \A n \in S : n \in Nat /\ n <= h
      OBVIOUS
    <2>2. \A n \in S : h - n \in Nat
      BY <2>1
    <2>3. \A t \in T : t \in Nat
      BY <1>2, <2>2
    <2>4. PICK n : n \in S
      OBVIOUS
    <2>5. h - n \in T
      BY <1>2, <2>4
    <2> QED BY <2>3, <2>5
  <1>4. PICK t \in T : \A u \in T : ~ (<<u, t>> \in R)
    <2> HIDE DEF R
    <2> QED BY <1>1, <1>3, WFMin
  <1>5. PICK n \in S : t = h - n
    BY <1>2, <1>4
  <1>6. ASSUME NEW m \in S PROVE m <= n
    <2>1. PICK u : u = h - m
      OBVIOUS
    <2>2. u \in T /\ u \in Nat /\ t \in Nat /\ ~ (<<u, t>> \in R)
      BY <1>2, <1>3, <1>4, <2>1
    <2>3. u < t => <<u, t>> \in R
      BY <2>2
    <2> QED BY <2>1, <2>2, <2>3, <1>5
  <1> QED BY <1>6

\* What a block holds of an account lies at or before it, and grows with the block.
LEMMA OfFacts ==
    ASSUME NEW a, NEW kind, NEW h \in Nat, NEW g \in Nat, h <= g
    PROVE  /\ Of(a, kind, h) \subseteq 1 .. h
           /\ Of(a, kind, h) \subseteq Of(a, kind, g)
           /\ Of(a, kind, h) = Of(a, kind, g) \cap (1 .. h)
  BY DEF Of

\* The proofs of an account are counted by a natural number that grows with the block.
LEMMA ProofsGrow ==
    ASSUME NEW a, NEW h \in Nat, NEW g \in Nat, h <= g
    PROVE  /\ Proofs(a, h) \in Nat /\ Proofs(a, g) \in Nat
           /\ Proofs(a, h) <= Proofs(a, g)
<1>1. PICK S, T : S = Of(a, "proof", h) /\ T = Of(a, "proof", g)
  OBVIOUS
<1>2. S \subseteq T /\ T \subseteq 1 .. g
  <2>1. g <= g
    OBVIOUS
  <2> QED BY <1>1, <2>1, OfFacts
<1>3. IsFiniteSet(1 .. g)
  BY FS_Interval
<1>4. IsFiniteSet(T)
  BY <1>2, <1>3, FS_Subset
<1>5. IsFiniteSet(S) /\ Cardinality(S) <= Cardinality(T)
  BY <1>2, <1>4, FS_Subset
<1> QED BY <1>1, <1>4, <1>5, FS_CardinalityType DEF Proofs

\* A descriptor that is there was put there by an update no later change follows.
LEMMA UpdatedFacts ==
    ASSUME NEW a, NEW h \in Nat
    PROVE  /\ UpdatedAt(a, h) \in 0 .. h
           /\ Present(a, h) => UpdatedAt(a, h) \in Of(a, "update", h)
           /\ Present(a, h) <=>
                \E n \in Of(a, "update", h) :
                    \A m \in Of(a, "update", h) \cup Of(a, "clear", h) : m <= n
<1>1. PICK U, C : U = Of(a, "update", h) /\ C = Of(a, "clear", h)
  OBVIOUS
<1>2. U \subseteq 1 .. h
  BY <1>1 DEF Of
<1>3. PICK u : u = UpdatedAt(a, h)
  OBVIOUS
<1>4. u = IF \E n \in U : \A m \in U \cup C : m <= n
            THEN CHOOSE n \in U : \A m \in U : m <= n ELSE 0
  BY <1>1, <1>3 DEF UpdatedAt
<1>5. CASE \E n \in U : \A m \in U \cup C : m <= n
  <2>1. \E n \in U : \A m \in U : m <= n
    BY <1>5
  <2>2. u \in U
    BY <1>4, <1>5, <2>1
  <2> QED BY <1>1, <1>2, <1>3, <1>5, <2>2 DEF Present
<1>6. CASE ~ \E n \in U : \A m \in U \cup C : m <= n
  BY <1>1, <1>3, <1>4, <1>6 DEF Present
<1> QED BY <1>5, <1>6

\* The block that updated the descriptor has it.
LEMMA PresentAtUpdate ==
    ASSUME NEW a, NEW h \in Nat, NEW u \in Nat, u = UpdatedAt(a, h), u # 0
    PROVE  Present(a, u)
<1>1. u \in Of(a, "update", h) /\ u <= h
  BY UpdatedFacts DEF Present
<1>2. u \in Of(a, "update", u)
  BY <1>1 DEF Of
<1>3. \A m \in Of(a, "update", u) \cup Of(a, "clear", u) : m <= u
  BY DEF Of
<1> QED BY <1>2, <1>3, UpdatedFacts

\* Without a clear, a descriptor that is there stays there.
LEMMA PresentStays ==
    ASSUME NEW a, NEW h \in Nat, NEW g \in Nat, h <= g, Present(a, h), Of(a, "clear", g) = {}
    PROVE  Present(a, g)
<1>1. PICK S : S = Of(a, "update", g)
  OBVIOUS
<1>2. S \subseteq 0 .. g
  BY <1>1 DEF Of
<1>3. S # {}
  BY <1>1, UpdatedFacts, OfFacts
<1>4. \E n \in S : \A m \in S : m <= n
  BY <1>2, <1>3, GreatestExists
<1> QED BY <1>1, <1>4, UpdatedFacts

\* The chain is only ever extended.
Extended ==
    /\ chain \in Seq(Events) /\ chain' \in Seq(Events)
    /\ Finalized <= Finalized'
    /\ \A n \in 1 .. Finalized : chain'[n] = chain[n]

\* The past of the chain does not change.
LEMMA PastStays ==
    ASSUME Extended, NEW a, NEW h \in 0 .. Finalized
    PROVE  /\ \A kind : Of(a, kind, h)' = Of(a, kind, h)
           /\ Proofs(a, h)' = Proofs(a, h)
           /\ UpdatedAt(a, h)' = UpdatedAt(a, h)
           /\ Present(a, h)' <=> Present(a, h)
<1>1. Finalized \in Nat
  BY DEF Extended, Finalized
<1>2. ASSUME NEW kind PROVE Of(a, kind, h)' = Of(a, kind, h)
  BY <1>1 DEF Extended, Of
<1>3. Proofs(a, h)' = Proofs(a, h)
  BY <1>2 DEF Proofs
<1>4. UpdatedAt(a, h)' = UpdatedAt(a, h)
  <2>1. PICK U, C : U = Of(a, "update", h) /\ C = Of(a, "clear", h)
    OBVIOUS
  <2>2. U = Of(a, "update", h)' /\ C = Of(a, "clear", h)'
    BY <1>2, <2>1
  <2>3. UpdatedAt(a, h) = IF \E n \in U : \A m \in U \cup C : m <= n
                            THEN CHOOSE n \in U : \A m \in U : m <= n ELSE 0
    BY <2>1 DEF UpdatedAt
  <2>4. UpdatedAt(a, h)' = IF \E n \in U : \A m \in U \cup C : m <= n
                             THEN CHOOSE n \in U : \A m \in U : m <= n ELSE 0
    BY <2>2 DEF UpdatedAt
  <2> QED BY <2>3, <2>4
<1> QED BY <1>2, <1>3, <1>4 DEF Present

\* What the chain holds now it held before, and it holds no fewer proofs.
LEMMA ChainGrows ==
    ASSUME Extended, NEW a
    PROVE  /\ Finalized \in Nat /\ Finalized' \in Nat
           /\ Of(a, "clear", Finalized)' = {} => Of(a, "clear", Finalized) = {}
           /\ Proofs(a, Finalized) \in Nat /\ Proofs(a, Finalized)' \in Nat
           /\ Proofs(a, Finalized) <= Proofs(a, Finalized)'
<1>1. Finalized \in Nat /\ Finalized' \in Nat /\ Finalized <= Finalized'
  BY DEF Extended, Finalized
<1>2. ASSUME NEW kind PROVE Of(a, kind, Finalized) \subseteq Of(a, kind, Finalized)'
  BY <1>1 DEF Extended, Of
<1>3. PICK S, T : S = Of(a, "proof", Finalized) /\ T = Of(a, "proof", Finalized)'
  OBVIOUS
<1>4. T \subseteq 1 .. Finalized' /\ S \subseteq T
  BY <1>2, <1>3 DEF Of
<1>5. IsFiniteSet(1 .. Finalized')
  BY <1>1, FS_Interval
<1>6. IsFiniteSet(T)
  BY <1>4, <1>5, FS_Subset
<1>7. IsFiniteSet(S) /\ Cardinality(S) <= Cardinality(T)
  BY <1>4, <1>6, FS_Subset
<1>8. Cardinality(S) = Proofs(a, Finalized) /\ Cardinality(T) = Proofs(a, Finalized)'
  BY <1>3 DEF Proofs
<1>9. Of(a, "clear", Finalized)' = {} => Of(a, "clear", Finalized) = {}
  BY <1>2
<1> QED BY <1>1, <1>6, <1>7, <1>8, <1>9, FS_CardinalityType
-----------------------------------------------------------------------------
(* The registry: the steps *)

\* The chain is extended by Finalize, and by nothing else.
LEMMA ChainStep ==
    ASSUME RegType, [RegNext]_regVars
    PROVE  Extended
<1>1. CASE Finalize
  <2>1. PICK e \in Events : chain' = Append(chain, e)
    BY <1>1 DEF Finalize
  <2> QED BY <2>1 DEF RegType, Extended, Finalized
<1>2. CASE ~Finalize
  <2>1. chain' = chain
    BY <1>2 DEF RegNext, Reconcile, Refresh, Reconstruct, BeginRound, PublishHead, LockScan,
                PinScan, MinerPage, DescriptorPage, StartRefresh, LockRefresh, PinRefresh,
                RefreshDescriptor, RefreshMiner, RefreshFails, ConnectionEnds, BeginSearch,
                NextAccount, Bisect, LowerFirst, EndSearch, regVars
  <2> QED BY <2>1 DEF RegType, Extended, Finalized
<1> QED BY <1>1, <1>2

\* A row of the registry holds numbers of blocks.
LEMMA UpsertType ==
    ASSUME RegType, NEW a \in Accounts, NEW h \in Nat, UpsertDescriptor(a, h)
    PROVE  descs' \in [Accounts -> [height : Nat, first : Nat]]
<1>1. PICK u : u = UpdatedAt(a, h)
  OBVIOUS
<1>2. u \in Nat
  BY <1>1, UpdatedFacts
<1>3. PICK d : d = descs[a]
  OBVIOUS
<1>4. d.height \in Nat /\ d.first \in Nat
  BY <1>3 DEF RegType
<1>5. PICK r : r = [height |-> u, first |-> IF d.height = 0 THEN u ELSE d.first]
  OBVIOUS
<1>6. r \in [height : Nat, first : Nat]
  BY <1>2, <1>4, <1>5
<1>7. descs' = descs \/ descs' = [descs EXCEPT ![a] = r]
  BY <1>1, <1>3, <1>5 DEF UpsertDescriptor, RegType
<1> QED BY <1>6, <1>7 DEF RegType

\* A finalized block names an account.
LEMMA EventAccount ==
    ASSUME RegType, NEW n \in 1 .. Finalized
    PROVE  chain[n].account \in Accounts
<1>1. chain[n] \in Events
  BY DEF RegType, Finalized
<1> QED BY <1>1 DEF Events

\* The number of qblocks up to a block is a number.
LEMMA QblockCountType ==
    ASSUME NEW h \in Nat
    PROVE  QblockCount(h) \in Nat
<1>1. PICK S : S = {n \in 1 .. h : chain[n].kind = "proof"}
  OBVIOUS
<1>2. IsFiniteSet(S)
  <2>1. IsFiniteSet(1 .. h)
    BY FS_Interval
  <2> QED BY <1>1, <2>1, FS_Subset
<1> QED BY <1>1, <1>2, FS_CardinalityType DEF QblockCount

\* Reconciliation keeps the types and the ownership of the lock.
LEMMA ReconcileControl ==
    ASSUME RegType, LockOK, Reconcile
    PROVE  RegType' /\ LockOK'
<1>0. Finalized \in Nat /\ (chain' = chain => Finalized' = Finalized)
  BY DEF RegType, Finalized
<1>1. CASE BeginRound
  <2>1. PICK t \in headRow.height .. Finalized :
          scan' = [ScanIdle EXCEPT !.at = "head", !.target = t]
    BY <1>1 DEF BeginRound
  <2>2. t \in Nat
    BY <1>0, <2>1 DEF RegType
  <2>3. scan' = [at |-> "head", target |-> t, head |-> 0, left |-> {}]
    BY <2>1 DEF ScanIdle
  <2>4. scan' \in [at : {"head"}, target : Nat, head : {0}, left : SUBSET Accounts]
    BY <2>2, <2>3
  <2>5. RegType'
    BY SMTT(30), <1>1, <2>4 DEF BeginRound, RegType, ScanHolds, RefreshHolds, rowVars
  <2>6. LockOK'
    <3>1. scan'.at = "head" /\ scan'.head = 0 /\ scan.at = "idle"
      BY <1>1, <2>4 DEF BeginRound
    <3>2. refresh' = refresh /\ search' = search /\ lock' = lock /\ Finalized' = Finalized
      BY <1>0, <1>1 DEF BeginRound
    <3> QED BY <1>0, <3>1, <3>2 DEF LockOK, ScanHolds, RefreshHolds
  <2> QED BY <2>5, <2>6
<1>2. CASE PublishHead
  <2>1. scan' = [scan EXCEPT !.at = "lock"] \/ scan' = ScanIdle
    BY <1>2 DEF PublishHead
  <2>2. headRow' \in [height : Nat, qblocks : Nat]
    BY <1>2, QblockCountType DEF PublishHead, UpsertHead, RegType
  <2>3. scan' \in [at : {"idle", "lock"}, target : Nat, head : {0, scan.head},
                   left : SUBSET Accounts]
    <3>1. CASE scan' = ScanIdle
      BY <3>1 DEF ScanIdle
    <3>2. CASE scan' = [scan EXCEPT !.at = "lock"]
      BY <3>2 DEF RegType
    <3> QED BY <2>1, <3>1, <3>2
  <2>4. RegType'
    <3>1. scan.head \in Nat
      BY DEF RegType
    <3>2. scan' \in [at : {"idle", "lock"}, target : Nat, head : Nat, left : SUBSET Accounts]
      BY <2>3, <3>1
    <3> QED BY <1>2, <2>2, <3>2 DEF PublishHead, RegType, ScanHolds, RefreshHolds
  <2>5. LockOK'
    BY <1>0, <1>2, <2>3 DEF PublishHead, LockOK, ScanHolds, RefreshHolds
  <2> QED BY <2>4, <2>5
<1>3. CASE LockScan
  BY <1>0, <1>3 DEF LockScan, ScanIdle, RegType, LockOK, ScanHolds, RefreshHolds, rowVars
<1>4. CASE PinScan
  <2>1. PICK left : left = MinerAccounts(Finalized)
    OBVIOUS
  <2>2. left \subseteq Accounts
    BY <2>1 DEF MinerAccounts
  <2>3. scan' = [scan EXCEPT !.at = "miners", !.head = Finalized, !.left = left]
    BY <1>4, <2>1 DEF PinScan, ScanHead
  <2>4. scan' \in [at : {"miners"}, target : Nat, head : {Finalized}, left : SUBSET Accounts]
    BY <2>2, <2>3 DEF RegType
  <2>5. RegType'
    BY <1>0, <1>4, <2>4 DEF PinScan, RegType, ScanHolds, RefreshHolds, rowVars
  <2>6. LockOK'
    <3>1. scan'.at = "miners" /\ scan'.head = Finalized /\ scan.at = "pin"
      BY <1>4, <2>4 DEF PinScan
    <3>2. refresh' = refresh /\ search' = search /\ lock' = lock /\ Finalized' = Finalized
      BY <1>0, <1>4 DEF PinScan
    <3> QED BY <1>0, <3>1, <3>2 DEF LockOK, ScanHolds, RefreshHolds
  <2> QED BY <2>5, <2>6
<1>5. CASE MinerPage
  <2>1. miners' \in [Accounts -> Nat]
    <3>1. CASE scan.left = {}
      BY <1>5, <3>1 DEF MinerPage, RegType
    <3>2. CASE scan.left # {}
      <4>1. PICK a \in scan.left : UpsertMiner(a, scan.head)
        BY <1>5, <3>2 DEF MinerPage
      <4>2. a \in Accounts /\ scan.head \in Nat /\ miners[a] \in Nat
        BY <4>1 DEF RegType
      <4>3. Proofs(a, scan.head) \in Nat
        BY <4>2, ProofsGrow
      <4> QED BY <4>1, <4>2, <4>3 DEF UpsertMiner, RegType
    <3> QED BY <3>1, <3>2
  <2>2. scan' \in [at : {"miners", "descs"}, target : Nat, head : {scan.head},
                   left : SUBSET Accounts]
    <3>1. CASE scan.left = {}
      <4>1. PICK left : left = DescriptorAccounts(scan.head)
        OBVIOUS
      <4>2. left \subseteq Accounts
        BY <4>1 DEF DescriptorAccounts
      <4>3. scan' = [scan EXCEPT !.at = "descs", !.left = left]
        BY <1>5, <3>1, <4>1 DEF MinerPage
      <4> QED BY <4>2, <4>3 DEF RegType
    <3>2. CASE scan.left # {}
      <4>1. PICK a \in scan.left : scan' = [scan EXCEPT !.left = @ \ {a}]
        BY <1>5, <3>2 DEF MinerPage
      <4> QED BY <1>5, <4>1 DEF MinerPage, RegType
    <3> QED BY <3>1, <3>2
  <2> QED BY <1>0, <1>5, <2>1, <2>2 DEF MinerPage, RegType, LockOK, ScanHolds, RefreshHolds
<1>6. CASE DescriptorPage
  <2>1. descs' \in [Accounts -> [height : Nat, first : Nat]]
    <3>1. CASE scan.left = {}
      BY <1>6, <3>1 DEF DescriptorPage, RegType
    <3>2. CASE scan.left # {}
      <4>1. PICK a \in scan.left : UpsertDescriptor(a, scan.head)
        BY <1>6, <3>2 DEF DescriptorPage
      <4>2. a \in Accounts /\ scan.head \in Nat
        BY <4>1 DEF RegType
      <4> QED BY <4>1, <4>2, UpsertType
    <3> QED BY <3>1, <3>2
  <2>2. CASE scan.left = {}
    BY SMTT(30), <1>0, <1>6, <2>1, <2>2
       DEF DescriptorPage, ScanIdle, RegType, LockOK, ScanHolds, RefreshHolds
  <2>3. CASE scan.left # {}
    <3>1. PICK a \in scan.left : scan' = [scan EXCEPT !.left = @ \ {a}]
      BY <1>6, <2>3 DEF DescriptorPage
    <3>2. lock' = lock
      BY <1>6, <2>3 DEF DescriptorPage
    <3> QED BY <1>0, <1>6, <2>1, <2>3, <3>1, <3>2
         DEF DescriptorPage, RegType, LockOK, ScanHolds, RefreshHolds
  <2> QED BY <2>2, <2>3
<1> QED BY <1>1, <1>2, <1>3, <1>4, <1>5, <1>6 DEF Reconcile

\* So does the live lane, and what ends it.
LEMMA RefreshControl ==
    ASSUME RegType, LockOK, Refresh \/ RefreshFails \/ ConnectionEnds
    PROVE  RegType' /\ LockOK'
<1>0. Finalized \in Nat /\ (chain' = chain => Finalized' = Finalized)
  BY DEF RegType, Finalized
<1>1. CASE StartRefresh
  <2>1. PICK n \in 1 .. Finalized : refresh' = [RefreshIdle EXCEPT !.at = "lock", !.block = n]
    BY <1>1 DEF StartRefresh
  <2>2. refresh' = [at |-> "lock", block |-> n, head |-> 0]
    BY <2>1 DEF RefreshIdle
  <2>3. refresh' \in [at : {"lock"}, block : 1 .. Finalized, head : {0}]
    BY <2>2
  <2>4. RegType'
    <3>1. refresh' \in [at : {"idle", "lock"} \cup RefreshHolds, block : Nat, head : Nat]
      BY <1>0, <2>3
    <3> QED BY <1>1, <3>1 DEF StartRefresh, RegType, ScanHolds, RefreshHolds, rowVars
  <2>5. LockOK'
    <3>1. /\ refresh'.at = "lock" /\ refresh'.block \in 1 .. Finalized /\ refresh'.head = 0
          /\ refresh.at = "idle"
      BY <1>1, <2>3 DEF StartRefresh
    <3>2. scan' = scan /\ search' = search /\ lock' = lock /\ Finalized' = Finalized
      BY <1>0, <1>1 DEF StartRefresh
    <3> QED BY <1>0, <3>1, <3>2 DEF LockOK, ScanHolds, RefreshHolds
  <2> QED BY <2>4, <2>5
<1>2. CASE LockRefresh
  BY <1>0, <1>2 DEF LockRefresh, RegType, LockOK, ScanHolds, RefreshHolds, rowVars
<1>3. CASE PinRefresh
  <2>1. PICK at \in {"miner", "desc"} :
          refresh' = [refresh EXCEPT !.head = Finalized, !.at = at]
    BY <1>3 DEF PinRefresh
  <2>2. refresh' \in [at : {"miner", "desc"}, block : {refresh.block}, head : {Finalized}]
    BY <2>1 DEF RegType
  <2>3. RegType'
    BY <1>0, <1>3, <2>2 DEF PinRefresh, RegType, ScanHolds, RefreshHolds, rowVars
  <2>4. LockOK'
    BY <1>0, <1>3, <2>2 DEF PinRefresh, LockOK, ScanHolds, RefreshHolds
  <2> QED BY <2>3, <2>4
<1>4. CASE RefreshDescriptor
  <2>1. PICK a : a = chain[refresh.block].account
    OBVIOUS
  <2>2. a \in Accounts /\ refresh.head \in Nat
    BY <1>4, <2>1, EventAccount DEF RefreshDescriptor, RegType, LockOK
  <2>3. descs' \in [Accounts -> [height : Nat, first : Nat]]
    BY <1>4, <2>1, <2>2, UpsertType DEF RefreshDescriptor
  <2> QED BY <1>0, <1>4, <2>3 DEF RefreshDescriptor, RegType, LockOK, ScanHolds, RefreshHolds
<1>5. CASE RefreshMiner
  <2>1. PICK a : a = chain[refresh.block].account
    OBVIOUS
  <2>2. a \in Accounts /\ refresh.head \in Nat /\ miners[a] \in Nat
    BY <1>5, <2>1, EventAccount DEF RefreshMiner, RegType, LockOK
  <2>3. Proofs(a, refresh.head) \in Nat
    BY <2>2, ProofsGrow
  <2>4. miners' \in [Accounts -> Nat]
    BY <1>5, <2>1, <2>2, <2>3 DEF RefreshMiner, UpsertMiner, RegType
  <2> QED BY <1>0, <1>5, <2>4
       DEF RefreshMiner, RefreshIdle, RegType, LockOK, ScanHolds, RefreshHolds
<1>6. CASE RefreshFails
  BY <1>0, <1>6 DEF RefreshFails, RefreshIdle, RegType, LockOK, ScanHolds, RefreshHolds,
                    rowVars
<1>7. CASE ConnectionEnds
  BY <1>0, <1>7 DEF ConnectionEnds, RefreshIdle, ScanIdle, RegType, LockOK, ScanHolds,
                    RefreshHolds, rowVars
<1> QED BY <1>1, <1>2, <1>3, <1>4, <1>5, <1>6, <1>7 DEF Refresh
\* The middle of a search lies below its upper end.
LEMMA MiddleFacts ==
    ASSUME NEW low \in Nat, NEW high \in Nat, low < high
    PROVE  LET middle == low + (high - low) \div 2 IN
           middle \in Nat /\ low <= middle /\ middle < high
  OBVIOUS

\* One step of the search takes one of the two halves.
LEMMA HalveFacts ==
    ASSUME RegType, Bisect
    PROVE  \E middle \in Nat, a \in search.account :
             /\ search.low <= middle /\ middle < search.high
             /\ \/ /\ Present(a, middle)
                   /\ search' = [search EXCEPT !.low = search.low, !.high = middle]
                \/ /\ ~Present(a, middle)
                   /\ search' = [search EXCEPT !.low = middle + 1, !.high = search.high]
<1>1. PICK low, high : low = search.low /\ high = search.high
  OBVIOUS
<1>2. low \in Nat /\ high \in Nat /\ low < high
  BY <1>1 DEF Bisect, RegType
<1>3. PICK middle : middle = low + (high - low) \div 2
  OBVIOUS
<1>4. middle \in Nat /\ low <= middle /\ middle < high
  BY <1>2, <1>3, MiddleFacts
<1>5. PICK a \in search.account :
        LET r == Halve(a, low, high) IN
        search' = [search EXCEPT !.low = r.low, !.high = r.high]
  BY <1>1 DEF Bisect
<1>6. CASE Present(a, middle)
  <2>1. Halve(a, low, high) = [low |-> low, high |-> middle]
    BY <1>3, <1>6 DEF Halve
  <2>2. search' = [search EXCEPT !.low = low, !.high = middle]
    BY <1>5, <2>1
  <2> QED BY <1>1, <1>4, <1>6, <2>2
<1>7. CASE ~Present(a, middle)
  <2>1. Halve(a, low, high) = [low |-> middle + 1, high |-> high]
    BY <1>3, <1>7 DEF Halve
  <2>2. search' = [search EXCEPT !.low = middle + 1, !.high = high]
    BY <1>5, <2>1
  <2> QED BY <1>1, <1>4, <1>7, <2>2
<1> QED BY <1>6, <1>7

\* The reconstruction keeps the types, and stays out of the lock.
LEMMA ReconstructControl ==
    ASSUME RegType, LockOK, Reconstruct
    PROVE  RegType' /\ LockOK'
<1>0. Finalized \in Nat /\ (chain' = chain => Finalized' = Finalized)
  BY DEF RegType, Finalized
<1> DEFINE SearchRecord ==
      [at : {"idle", "next", "bisect"}, head : Nat, left : SUBSET Accounts,
       account : SUBSET Accounts, low : Nat, high : Nat]
<1>1. search \in SearchRecord
  BY DEF RegType
<1>2. /\ search' \in SearchRecord /\ search'.head <= Finalized
      /\ descs' \in [Accounts -> [height : Nat, first : Nat]] /\ exact' \subseteq Accounts
  <2>0. descs \in [Accounts -> [height : Nat, first : Nat]] /\ exact \subseteq Accounts
    BY DEF RegType
  <2>1. CASE BeginSearch
    <3>1. PICK left : left = DescriptorAccounts(Finalized)
      OBVIOUS
    <3>2. left \subseteq Accounts
      BY <3>1 DEF DescriptorAccounts
    <3>3. search' = [SearchIdle EXCEPT !.at = "next", !.head = Finalized, !.left = left]
      BY <2>1, <3>1 DEF BeginSearch
    <3>4. search' = [at |-> "next", head |-> Finalized, left |-> left, account |-> {},
                     low |-> 0, high |-> 0]
      BY <3>3 DEF SearchIdle
    <3>5. search' \in SearchRecord /\ search'.head = Finalized
      BY <1>0, <3>2, <3>4
    <3> QED BY <1>0, <2>0, <2>1, <3>5 DEF BeginSearch, rowVars
  <2>2. CASE NextAccount
    <3>1. PICK a \in search.left :
            \/ search' = [search EXCEPT !.left = @ \ {a}]
            \/ search' = [search EXCEPT !.at = "bisect", !.left = @ \ {a}, !.account = {a},
                                        !.low = 1, !.high = search.head]
      BY <2>2 DEF NextAccount
    <3>2. a \in Accounts /\ search.head \in Nat
      BY <1>1, <3>1
    <3>3. search' \in SearchRecord /\ search'.head = search.head
      <4>1. CASE search' = [search EXCEPT !.left = @ \ {a}]
        BY <1>1, <4>1
      <4>2. CASE search' = [search EXCEPT !.at = "bisect", !.left = @ \ {a}, !.account = {a},
                                          !.low = 1, !.high = search.head]
        BY <1>1, <3>2, <4>2
      <4> QED BY <3>1, <4>1, <4>2
    <3> QED BY <1>0, <2>0, <2>2, <3>3 DEF NextAccount, LockOK, rowVars
  <2>3. CASE Bisect
    <3>1. PICK middle \in Nat :
            \/ search' = [search EXCEPT !.low = search.low, !.high = middle]
            \/ search' = [search EXCEPT !.low = middle + 1, !.high = search.high]
      BY <2>3, HalveFacts
    <3>2. search' \in SearchRecord /\ search'.head = search.head
      <4>1. CASE search' = [search EXCEPT !.low = search.low, !.high = middle]
        BY <1>1, <4>1
      <4>2. CASE search' = [search EXCEPT !.low = middle + 1, !.high = search.high]
        <5>1. PICK low \in Nat : low = middle + 1
          OBVIOUS
        <5>2. search' = [search EXCEPT !.low = low]
          BY <1>1, <4>2, <5>1
        <5> QED BY <1>1, <5>1, <5>2
      <4> QED BY <3>1, <4>1, <4>2
    <3> QED BY <1>0, <2>0, <2>3, <3>2 DEF Bisect, LockOK, rowVars
  <2>4. CASE LowerFirst
    <3>1. PICK a \in search.account : BackfillFirst(a, search.low) /\ exact' = exact \cup {a}
      BY <2>4 DEF LowerFirst
    <3>2. a \in Accounts /\ search.low \in Nat
      BY <1>1, <3>1
    <3>3. PICK f \in Nat : descs' = [descs EXCEPT ![a].first = f]
      BY <2>0, <3>1, <3>2 DEF BackfillFirst
    <3>4. descs' \in [Accounts -> [height : Nat, first : Nat]]
      BY <2>0, <3>2, <3>3
    <3>5. search' \in SearchRecord /\ search'.head = search.head
      BY <1>1, <2>4 DEF LowerFirst
    <3> QED BY <1>0, <2>0, <3>1, <3>2, <3>4, <3>5 DEF LockOK
  <2>5. CASE EndSearch
    BY <1>0, <2>0, <2>5 DEF EndSearch, SearchIdle, rowVars
  <2> QED BY <2>1, <2>2, <2>3, <2>4, <2>5 DEF Reconstruct
<1>3. /\ UNCHANGED <<chain, lock, scan, refresh, miners, mark, headRow>>
      /\ mode' \in {"service", "admin"}
  BY DEF Reconstruct, BeginSearch, NextAccount, Bisect, LowerFirst, EndSearch,
         rowVars, RegType
<1>4. RegType'
  BY <1>2, <1>3 DEF RegType, ScanHolds, RefreshHolds
<1>5. LockOK'
  BY <1>0, <1>2, <1>3 DEF LockOK, ScanHolds, RefreshHolds
<1> QED BY <1>4, <1>5

\* Every step keeps the types and the ownership of the lock.
LEMMA ControlStep ==
    ASSUME RegType, LockOK, [RegNext]_regVars
    PROVE  RegType' /\ LockOK'
<1>1. CASE Finalize
  <2>1. Extended
    BY ChainStep
  <2>2. UNCHANGED <<mode, lock, scan, refresh, search, rowVars>>
    BY <1>1 DEF Finalize
  <2>3. Finalized \in Nat /\ Finalized' \in Nat /\ Finalized <= Finalized'
    BY <2>1 DEF Extended, Finalized
  <2>4. RegType'
    BY <2>1, <2>2 DEF RegType, Extended, ScanHolds, RefreshHolds, rowVars
  <2>5. LockOK'
    <3>1. scan.head \in Nat /\ refresh.head \in Nat /\ search.head \in Nat /\ refresh.block \in Nat
      BY DEF RegType
    <3> QED BY <2>2, <2>3, <3>1 DEF LockOK, ScanHolds, RefreshHolds
  <2> QED BY <2>4, <2>5
<1>2. CASE UNCHANGED regVars
  BY <1>2 DEF regVars, rowVars, RegType, LockOK, ScanHolds, RefreshHolds, Finalized
<1> QED BY <1>1, <1>2, ReconcileControl, RefreshControl, ReconstructControl DEF RegNext

\* A counter is written from a state no older than the one that last wrote it.
LEMMA CountersStep ==
    ASSUME RegType, LockOK, CountersOK, [RegNext]_regVars
    PROVE  CountersOK' /\ \A a \in Accounts : miners'[a] >= miners[a]
<1>0. Extended /\ Finalized \in Nat
  BY ChainStep, ChainGrows
<1>1. ASSUME UNCHANGED miners,
             scan'.at = "miners" =>
               scan'.head = Finalized \/ (scan.at = "miners" /\ scan'.head = scan.head),
             refresh'.at \in {"desc", "miner"} =>
               \/ refresh'.head = Finalized
               \/ refresh.at \in {"desc", "miner"} /\ refresh'.head = refresh.head
      PROVE  CountersOK' /\ \A a \in Accounts : miners'[a] >= miners[a]
  <2> SUFFICES ASSUME NEW a \in Accounts
               PROVE  /\ miners'[a] >= miners[a]
                      /\ miners'[a] <= Proofs(a, Finalized)'
                      /\ scan'.at = "miners" => miners'[a] <= Proofs(a, scan.head)'
                      /\ refresh'.at \in {"desc", "miner"} =>
                           miners'[a] <= Proofs(a, refresh.head)'
    BY DEF CountersOK
  <2>1. miners[a] \in Nat /\ miners'[a] = miners[a]
    BY <1>1 DEF RegType
  <2>2. miners'[a] <= Proofs(a, Finalized)'
    BY <1>0, <2>1, ChainGrows DEF CountersOK
  <2>3. ASSUME NEW h \in 0 .. Finalized, miners[a] <= Proofs(a, h)
        PROVE  miners'[a] <= Proofs(a, h)'
    BY <1>0, <2>1, <2>3, PastStays
  <2>4. ASSUME scan'.at = "miners" PROVE miners'[a] <= Proofs(a, scan.head)'
    <3>1. PICK h : h = scan'.head
      OBVIOUS
    <3>2. h \in 0 .. Finalized /\ miners[a] <= Proofs(a, h)
      BY <1>0, <1>1, <2>4, <3>1 DEF RegType, LockOK, CountersOK
    <3>3. miners'[a] <= Proofs(a, h)'
      BY <2>3, <3>2
    <3> QED BY <3>1, <3>3 DEF Proofs, Of
  <2>5. ASSUME refresh'.at \in {"desc", "miner"} PROVE miners'[a] <= Proofs(a, refresh.head)'
    <3>1. PICK h : h = refresh'.head
      OBVIOUS
    <3>2. h \in 0 .. Finalized /\ miners[a] <= Proofs(a, h)
      BY <1>0, <1>1, <2>5, <3>1 DEF RegType, LockOK, CountersOK
    <3>3. miners'[a] <= Proofs(a, h)'
      BY <2>3, <3>2
    <3> QED BY <3>1, <3>3 DEF Proofs, Of
  <2> QED BY <2>1, <2>2, <2>4, <2>5
<1>2. ASSUME NEW a \in Accounts, NEW h \in 0 .. Finalized, UpsertMiner(a, h), chain' = chain,
             \A b \in Accounts : miners[b] <= Proofs(b, h),
             scan'.at = "miners" => scan'.head = h, refresh'.at \notin {"desc", "miner"}
      PROVE  CountersOK' /\ \A b \in Accounts : miners'[b] >= miners[b]
  <2> SUFFICES ASSUME NEW b \in Accounts
               PROVE  /\ miners'[b] >= miners[b]
                      /\ miners'[b] <= Proofs(b, Finalized)'
                      /\ scan'.at = "miners" => miners'[b] <= Proofs(b, scan.head)'
    BY <1>2 DEF CountersOK
  <2>1. h \in Nat /\ h <= Finalized
    BY <1>0
  <2>2. PICK here, last, now :
          here = Proofs(b, h) /\ last = Proofs(b, Finalized) /\ now = Proofs(a, h)
    OBVIOUS
  <2>3. here \in Nat /\ last \in Nat /\ now \in Nat /\ here <= last
    BY <1>0, <2>1, <2>2, ProofsGrow
  <2>4. miners[b] \in Nat /\ miners[b] <= here
    BY <1>2, <2>2 DEF RegType
  <2>5. miners'[b] = miners[b] \/ miners'[b] = here
    BY <1>2, <2>2 DEF UpsertMiner, RegType
  <2>6. miners'[b] \in Nat /\ miners'[b] >= miners[b] /\ miners'[b] <= here /\ miners'[b] <= last
    BY <2>3, <2>4, <2>5
  <2>7. Proofs(b, h)' = here /\ Proofs(b, Finalized)' = last
    BY <1>2, <2>2 DEF Proofs, Of, Finalized
  <2>8. ASSUME scan'.at = "miners" PROVE Proofs(b, scan.head)' = here
    BY <1>2, <2>7, <2>8 DEF Proofs, Of
  <2> QED BY <2>6, <2>7, <2>8
<1>3. CASE MinerPage
  <2>1. CASE scan.left = {}
    BY <1>1, <1>3, <2>1 DEF MinerPage, RegType
  <2>2. CASE scan.left # {}
    <3>1. PICK a \in scan.left :
            UpsertMiner(a, scan.head) /\ scan' = [scan EXCEPT !.left = @ \ {a}]
      BY <1>3, <2>2 DEF MinerPage
    <3>2. PICK h : h = scan.head
      OBVIOUS
    <3>3. a \in Accounts /\ h \in 0 .. Finalized /\ scan'.head = h
      BY <1>0, <3>1, <3>2 DEF RegType, LockOK
    <3>4. scan.at = "miners" /\ chain' = chain /\ refresh' = refresh
      BY <1>3 DEF MinerPage
    <3>5. refresh.at \notin {"desc", "miner"}
      BY <3>4 DEF LockOK, ScanHolds, RefreshHolds
    <3>6. \A b \in Accounts : miners[b] <= Proofs(b, h)
      BY <3>2, <3>4 DEF CountersOK
    <3> QED BY <1>2, <3>1, <3>2, <3>3, <3>4, <3>5, <3>6
  <2> QED BY <2>1, <2>2
<1>4. CASE RefreshMiner
  <2>1. PICK a, h : a = chain[refresh.block].account /\ h = refresh.head
    OBVIOUS
  <2>2. /\ refresh.at = "miner" /\ UpsertMiner(a, h) /\ chain' = chain
        /\ scan' = scan /\ refresh' = RefreshIdle
    BY <1>4, <2>1 DEF RefreshMiner
  <2>3. a \in Accounts /\ h \in 0 .. Finalized
    BY SMTT(30), <1>0, <2>1, <2>2, EventAccount DEF RegType, LockOK
  <2>4. scan.at # "miners"
    BY <2>2 DEF LockOK, ScanHolds, RefreshHolds
  <2>5. \A b \in Accounts : miners[b] <= Proofs(b, h)
    BY <2>1, <2>2 DEF CountersOK
  <2>6. refresh'.at = "idle"
    BY <2>2 DEF RefreshIdle
  <2> QED BY <1>2, <2>2, <2>3, <2>4, <2>5, <2>6
<1>5. CASE PublishHead
  BY <1>1, <1>5 DEF PublishHead, ScanIdle, RegType
<1>6. CASE PinScan
  BY <1>1, <1>6 DEF PinScan, ScanHead, RegType, rowVars
<1>7. CASE DescriptorPage
  <2>1. scan'.at # "miners"
    <3>1. scan' = ScanIdle \/ \E a \in scan.left : scan' = [scan EXCEPT !.left = @ \ {a}]
      BY <1>7 DEF DescriptorPage
    <3>2. scan.at = "descs"
      BY <1>7 DEF DescriptorPage
    <3>3. ScanIdle.at = "idle"
      BY DEF ScanIdle
    <3>4. \A a : [scan EXCEPT !.left = @ \ {a}].at = "descs"
      BY <3>2 DEF RegType
    <3> QED BY <3>1, <3>3, <3>4
  <2> QED BY <1>1, <1>7, <2>1 DEF DescriptorPage
<1>8. CASE PinRefresh
  BY <1>1, <1>8 DEF PinRefresh, RegType, rowVars
<1>9. CASE RefreshDescriptor
  BY <1>1, <1>9 DEF RefreshDescriptor, RegType
<1>10. CASE BeginRound
  BY <1>1, <1>10 DEF BeginRound, ScanIdle, rowVars
<1>12. CASE LockScan
  BY <1>1, <1>12 DEF LockScan, RegType, rowVars
<1>13. CASE StartRefresh
  BY <1>1, <1>13 DEF StartRefresh, RefreshIdle, rowVars
<1>14. CASE LockRefresh
  BY <1>1, <1>14 DEF LockRefresh, RegType, rowVars
<1>15. CASE RefreshFails \/ ConnectionEnds
  BY <1>1, <1>15 DEF RefreshFails, ConnectionEnds, ScanIdle, RefreshIdle, rowVars
<1>11. CASE Reconstruct \/ Finalize \/ UNCHANGED regVars
  <2>1. UNCHANGED <<miners, scan, refresh>>
    BY <1>11 DEF Reconstruct, BeginSearch, NextAccount, Bisect, LowerFirst, EndSearch,
                 Finalize, regVars, rowVars
  <2> QED BY <1>1, <2>1
<1> QED
  BY <1>3, <1>4, <1>5, <1>6, <1>7, <1>8, <1>9, <1>10, <1>11, <1>12, <1>13, <1>14, <1>15
  DEF RegNext, Reconcile, Refresh
\* What is kept of an account's row.
RowOK(a) ==
    /\ a \in exact => descs[a].height # 0
    /\ descs[a].height # 0 =>
         /\ descs[a].first \in 1 .. Finalized
         /\ Present(a, descs[a].first)
         /\ a \in exact /\ Of(a, "clear", Finalized) = {} =>
              \A n \in 1 .. descs[a].first - 1 : ~Present(a, n)

\* The rows are in order exactly if the two conjuncts about them hold.
LEMMA RowsOK == (\A a \in Accounts : RowOK(a)) <=> DescriptorsOK /\ FirstSeenExact
  BY DEF RowOK, DescriptorsOK, FirstSeenExact

\* A row is in order after a step if the block it names had the descriptor before it.
LEMMA RowStep ==
    ASSUME RegType, RegType', Extended, NEW a \in Accounts, NEW f \in 1 .. Finalized,
           a \in exact' => descs'[a].height # 0,
           descs'[a].height # 0 => descs'[a].first = f,
           Present(a, f),
           a \in exact' /\ Of(a, "clear", Finalized) = {} =>
             \A n \in 1 .. f - 1 : ~Present(a, n)
    PROVE  RowOK(a)'
<1>1. /\ Finalized \in Nat /\ Finalized' \in Nat /\ Finalized <= Finalized'
      /\ Of(a, "clear", Finalized)' = {} => Of(a, "clear", Finalized) = {}
  BY ChainGrows DEF Extended
<1>2. Present(a, f)'
  BY <1>1, PastStays
<1>3. ASSUME NEW n \in 1 .. f - 1, ~Present(a, n) PROVE ~Present(a, n)'
  <2>1. n \in 0 .. Finalized
    BY <1>1
  <2> QED BY <1>3, <2>1, PastStays
<1>4. CASE descs'[a].height = 0
  BY <1>4 DEF RowOK
<1>5. CASE descs'[a].height # 0
  <2>1. descs'[a].first = f
    BY <1>5
  <2>2. Present(a, descs[a].first)'
    BY <1>2, <2>1 DEF Present, UpdatedAt, Of
  <2>3. ASSUME (a \in exact)', Of(a, "clear", Finalized)' = {}, NEW n \in 1 .. f - 1
        PROVE  ~Present(a, n)'
    BY <1>1, <1>3, <2>3
  <2> QED BY <1>1, <1>5, <2>1, <2>2, <2>3 DEF RowOK
<1> QED BY <1>4, <1>5

\* A row no step touches stays in order.
LEMMA RowKept ==
    ASSUME RegType, RegType', Extended, NEW a \in Accounts, RowOK(a),
           descs'[a] = descs[a], a \in exact' => a \in exact
    PROVE  RowOK(a)'
<1>1. CASE descs[a].height = 0
  BY <1>1 DEF RowOK
<1>2. CASE descs[a].height # 0
  <2>1. PICK f : f = descs[a].first
    OBVIOUS
  <2>2. /\ f \in 1 .. Finalized /\ Present(a, f)
        /\ a \in exact /\ Of(a, "clear", Finalized) = {} =>
             \A n \in 1 .. f - 1 : ~Present(a, n)
    BY <1>2, <2>1 DEF RowOK
  <2> QED BY <1>2, <2>1, <2>2, RowStep
<1> QED BY <1>1, <1>2

\* An upsert takes the block that updated the descriptor into a row that has none.
LEMMA UpsertRows ==
    ASSUME RegType, RegType', Extended, \A b \in Accounts : RowOK(b),
           NEW a \in Accounts, NEW h \in 0 .. Finalized, UpsertDescriptor(a, h),
           exact' = exact
    PROVE  /\ \A b \in Accounts : RowOK(b)'
           /\ \A b \in Accounts : descs[b].height # 0 => descs'[b].height # 0
<1>1. PICK u : u = UpdatedAt(a, h)
  OBVIOUS
<1>2. Finalized \in Nat
  BY ChainGrows
<1>3. h \in Nat
  BY <1>2
<1>4. u \in 0 .. h
  BY <1>1, <1>3, UpdatedFacts
<1>5. descs[a].height \in Nat
  BY DEF RegType
<1>6. CASE u <= descs[a].height
  <2>1. descs' = descs
    BY <1>1, <1>6 DEF UpsertDescriptor
  <2> QED BY <2>1, RowKept
<1>7. CASE ~(u <= descs[a].height)
  <2>1. u \in 1 .. Finalized /\ u \in Nat /\ u # 0
    BY <1>2, <1>4, <1>5, <1>7
  <2>2. Present(a, u)
    BY <1>1, <1>3, <2>1, PresentAtUpdate
  <2>3. PICK r : r = [height |-> u,
                      first |-> IF descs[a].height = 0 THEN u ELSE descs[a].first]
    OBVIOUS
  <2>4. descs' = [descs EXCEPT ![a] = r]
    BY <1>1, <1>7, <2>3 DEF UpsertDescriptor
  <2>5. descs'[a] = r /\ \A b \in Accounts : b # a => descs'[b] = descs[b]
    BY <2>4 DEF RegType
  <2>6. r.height = u /\ r.first = IF descs[a].height = 0 THEN u ELSE descs[a].first
    BY <2>3
  <2>7. RowOK(a)'
    <3>1. CASE descs[a].height = 0
      <4>1. a \notin exact'
        BY <3>1 DEF RowOK
      <4>2. descs'[a].first = u
        BY <2>5, <2>6, <3>1
      <4> QED BY <2>1, <2>2, <4>1, <4>2, RowStep
    <3>2. CASE descs[a].height # 0
      <4>1. PICK f : f = descs[a].first
        OBVIOUS
      <4>2. /\ f \in 1 .. Finalized /\ Present(a, f)
            /\ a \in exact /\ Of(a, "clear", Finalized) = {} =>
                 \A n \in 1 .. f - 1 : ~Present(a, n)
        BY <3>2, <4>1 DEF RowOK
      <4>3. descs'[a].first = f /\ descs'[a].height # 0
        BY <2>1, <2>5, <2>6, <3>2, <4>1
      <4> QED BY <4>2, <4>3, RowStep
    <3> QED BY <3>1, <3>2
  <2>8. ASSUME NEW b \in Accounts, b # a PROVE RowOK(b)'
    BY <2>5, <2>8, RowKept
  <2> QED BY <2>1, <2>5, <2>6, <2>7, <2>8
<1> QED BY <1>6, <1>7

\* A step that leaves the search alone leaves what it knows true.
LEMMA SearchKept ==
    ASSUME RegType, LockOK, SearchOK, Extended, search' = search,
           \A a \in Accounts : descs[a].height # 0 => descs'[a].height # 0
    PROVE  SearchOK'
<1>1. Finalized \in Nat
  BY DEF RegType, Finalized
<1>2. PICK head, low, high : head = search.head /\ low = search.low /\ high = search.high
  OBVIOUS
<1>3. head \in Nat /\ low \in Nat /\ high \in Nat /\ head <= Finalized
  BY <1>2 DEF RegType, LockOK
<1>4. \A a \in search.left : Present(a, head)'
  <2>1. head \in 0 .. Finalized
    BY <1>1, <1>3
  <2>2. \A a \in search.left : Present(a, head)
    BY <1>2 DEF SearchOK
  <2> QED BY <2>1, <2>2, PastStays
<1>5. ASSUME search.at = "bisect", NEW a \in search.account
      PROVE  /\ Present(a, high)'
             /\ Of(a, "clear", Finalized)' = {} => \A n \in 1 .. low - 1 : ~Present(a, n)'
  <2>1. /\ low \in 1 .. high /\ high <= head /\ Present(a, high)
        /\ Of(a, "clear", Finalized) = {} => \A n \in 1 .. low - 1 : ~Present(a, n)
    BY <1>2, <1>5 DEF SearchOK
  <2>2. high \in 0 .. Finalized /\ \A n \in 1 .. low - 1 : n \in 0 .. Finalized
    BY <1>1, <1>3, <2>1
  <2>3. Of(a, "clear", Finalized)' = {} => Of(a, "clear", Finalized) = {}
    BY ChainGrows
  <2> QED BY <2>1, <2>2, <2>3, PastStays
<1>6. head = search'.head /\ low = search'.low /\ high = search'.high
  BY <1>2
<1>7. ASSUME NEW a \in search.left PROVE Present(a, search.head)'
  <2>1. Present(a, head)'
    BY <1>4
  <2> QED BY <1>6, <2>1 DEF Present, UpdatedAt, Of
<1>8. ASSUME search.at = "bisect", NEW a \in search.account
      PROVE  /\ Present(a, search.high)'
             /\ Of(a, "clear", Finalized)' = {} =>
                  \A n \in 1 .. search'.low - 1 : ~Present(a, n)'
  <2>1. Present(a, high)'
    BY <1>5, <1>8
  <2>2. Present(a, search.high)'
    BY <1>6, <2>1 DEF Present, UpdatedAt, Of
  <2> QED BY <1>5, <1>6, <1>8, <2>2
<1>9. \A a \in search.account : a \in Accounts
  BY DEF RegType
<1> QED BY <1>7, <1>8, <1>9 DEF SearchOK
\* The reconstruction writes what it searched for, and searches for what is there.
LEMMA ReconstructRows ==
    ASSUME RegType, LockOK, SearchOK, RegType', Extended, \A a \in Accounts : RowOK(a),
           Reconstruct
    PROVE  SearchOK' /\ \A a \in Accounts : RowOK(a)'
<1>0. Finalized \in Nat /\ chain' = chain /\ Finalized' = Finalized
  <2>1. chain' = chain
    BY DEF Reconstruct, BeginSearch, NextAccount, Bisect, LowerFirst, EndSearch
  <2> QED BY <2>1 DEF RegType, Finalized
<1>1. ASSUME NEW a, NEW h PROVE Present(a, h)' <=> Present(a, h)
  BY <1>0 DEF Present, UpdatedAt, Of
<1>2. ASSUME NEW a PROVE Of(a, "clear", Finalized)' = Of(a, "clear", Finalized)
  BY <1>0 DEF Of
<1>3. PICK head, low, high : head = search.head /\ low = search.low /\ high = search.high
  OBVIOUS
<1>4. head \in Nat /\ low \in Nat /\ high \in Nat /\ head <= Finalized
  BY <1>3 DEF RegType, LockOK
<1>5. /\ \A a \in search.left : Present(a, head) /\ a \in Accounts
      /\ search.account \subseteq Accounts
  BY <1>3 DEF SearchOK, RegType
<1>6. ASSUME descs' = descs, exact' = exact PROVE \A a \in Accounts : RowOK(a)'
  BY <1>6, RowKept
<1>7. CASE BeginSearch
  <2>1. search' = [at |-> "next", head |-> Finalized, left |-> DescriptorAccounts(Finalized),
                   account |-> {}, low |-> 0, high |-> 0]
    BY <1>7 DEF BeginSearch, SearchIdle
  <2>2. \A a \in search'.left : Present(a, Finalized)
    BY <2>1 DEF DescriptorAccounts
  <2>3. \A a \in search'.left : Present(a, search.head)'
    <3>1. search'.head = Finalized
      BY <2>1
    <3>2. ASSUME NEW a \in search'.left PROVE Present(a, search.head)'
      <4>1. PICK h : h = Finalized
        OBVIOUS
      <4>2. Present(a, h)'
        BY <1>1, <2>2, <4>1
      <4> QED BY <3>1, <4>1, <4>2 DEF Present, UpdatedAt, Of
    <3> QED BY <3>2
  <2>4. search'.at = "next"
    BY <2>1
  <2> QED BY <1>6, <1>7, <2>3, <2>4 DEF BeginSearch, rowVars, SearchOK
<1>8. CASE EndSearch
  <2>1. search'.at = "idle" /\ search'.left = {}
    BY <1>8 DEF EndSearch, SearchIdle
  <2> QED BY <1>6, <1>8, <2>1 DEF EndSearch, rowVars, SearchOK
<1>9. CASE NextAccount
  <2>1. PICK a \in search.left :
          search' = IF descs[a].height = 0 THEN [search EXCEPT !.left = @ \ {a}]
                    ELSE [search EXCEPT !.at = "bisect", !.left = @ \ {a}, !.account = {a},
                                        !.low = 1, !.high = search.head]
    BY <1>9 DEF NextAccount
  <2>2. search.at = "next" /\ descs' = descs /\ exact' = exact
    BY <1>9 DEF NextAccount, rowVars
  <2>3. search'.head = head /\ search'.left \subseteq search.left
    BY <1>3, <2>1 DEF RegType
  <2>4. ASSUME NEW b \in search'.left PROVE Present(b, search.head)'
    <3>1. Present(b, head)'
      BY <1>1, <1>5, <2>3
    <3> QED BY <2>3, <3>1 DEF Present, UpdatedAt, Of
  <2>5. CASE descs[a].height = 0
    <3>1. search'.at = "next"
      BY <2>1, <2>2, <2>5 DEF RegType
    <3> QED BY <1>6, <2>2, <2>4, <3>1 DEF SearchOK
  <2>6. CASE descs[a].height # 0
    <3>1. search'.account = {a} /\ search'.low = 1 /\ search'.high = head
      BY <1>3, <2>1, <2>6 DEF RegType
    <3>2. Present(a, head) /\ head # 0
      <4>1. Present(a, head)
        BY <1>5, <2>1
      <4>2. UpdatedAt(a, head) \in 0 .. head
        BY <1>4, UpdatedFacts
      <4> QED BY <4>1, <4>2 DEF Present
    <3>3. Present(a, search.high)'
      <4>1. Present(a, head)'
        BY <1>1, <3>2
      <4> QED BY <3>1, <4>1 DEF Present, UpdatedAt, Of
    <3> QED BY <1>4, <1>6, <2>2, <2>3, <2>4, <2>6, <3>1, <3>2, <3>3 DEF SearchOK
  <2> QED BY <2>5, <2>6
<1>10. CASE Bisect
  <2>1. PICK middle \in Nat, a \in search.account :
          /\ search.low <= middle /\ middle < search.high
          /\ \/ /\ Present(a, middle)
                /\ search' = [search EXCEPT !.low = search.low, !.high = middle]
             \/ /\ ~Present(a, middle)
                /\ search' = [search EXCEPT !.low = middle + 1, !.high = search.high]
    BY <1>10, HalveFacts
  <2>2. search.at = "bisect" /\ descs' = descs /\ exact' = exact
    BY <1>10 DEF Bisect, rowVars
  <2>3. /\ low \in 1 .. high /\ high <= head /\ \A b \in search.account : b = a
        /\ descs[a].height # 0 /\ Present(a, high)
        /\ Of(a, "clear", Finalized) = {} => \A n \in 1 .. low - 1 : ~Present(a, n)
    BY <1>3, <2>1, <2>2 DEF SearchOK
  <2>4. PICK l \in Nat, g \in Nat :
          /\ search' = [search EXCEPT !.low = l, !.high = g]
          /\ l \in 1 .. g /\ g <= head /\ Present(a, g)
          /\ Of(a, "clear", Finalized) = {} => \A n \in 1 .. l - 1 : ~Present(a, n)
    <3>1. CASE Present(a, middle)
      <4>1. search' = [search EXCEPT !.low = low, !.high = middle]
        BY <1>3, <2>1, <3>1
      <4>2. low \in 1 .. middle /\ middle <= head
        BY <1>3, <1>4, <2>1, <2>3
      <4> QED BY <1>4, <2>3, <3>1, <4>1, <4>2
    <3>2. CASE ~Present(a, middle)
      <4>1. PICK l \in Nat : l = middle + 1
        OBVIOUS
      <4>2. search' = [search EXCEPT !.low = l, !.high = high]
        BY <1>3, <2>1, <3>2, <4>1
      <4>3. l \in 1 .. high
        BY <1>3, <1>4, <2>1, <4>1
      <4>4. ASSUME Of(a, "clear", Finalized) = {}, NEW n \in 1 .. l - 1, Present(a, n)
            PROVE  FALSE
        <5>1. n \in Nat /\ n <= middle /\ middle <= Finalized
          BY <1>0, <1>3, <1>4, <2>1, <2>3, <4>1
        <5>2. Of(a, "clear", middle) = {}
          BY <1>0, <4>4, <5>1, OfFacts
        <5>3. Present(a, middle)
          BY <4>4, <5>1, <5>2, PresentStays
        <5> QED BY <3>2, <5>3
      <4> QED BY <1>4, <2>3, <4>2, <4>3, <4>4
    <3> QED BY <3>1, <3>2
  <2>5. /\ search'.low = l /\ search'.high = g /\ search'.head = head
        /\ search'.left = search.left /\ search'.account = search.account
    BY <1>3, <2>4 DEF RegType
  <2>6. ASSUME NEW b \in search'.left PROVE Present(b, search.head)'
    <3>1. Present(b, head)'
      BY <1>1, <1>5, <2>5
    <3> QED BY <2>5, <3>1 DEF Present, UpdatedAt, Of
  <2>7. Present(a, search.high)'
    <3>1. Present(a, g)'
      BY <1>1, <2>4
    <3> QED BY <2>5, <3>1 DEF Present, UpdatedAt, Of
  <2>8. Of(a, "clear", Finalized)' = {} => \A n \in 1 .. search'.low - 1 : ~Present(a, n)'
    BY <1>1, <1>2, <2>4, <2>5
  <2> QED BY <1>6, <2>2, <2>3, <2>4, <2>5, <2>6, <2>7, <2>8 DEF SearchOK
<1>11. CASE LowerFirst
  <2>1. PICK a \in search.account : BackfillFirst(a, search.low) /\ exact' = exact \cup {a}
    BY <1>11 DEF LowerFirst
  <2>2. search.at = "bisect" /\ search.low >= search.high
    BY <1>11 DEF LowerFirst
  <2>3. /\ low \in 1 .. high /\ high <= head /\ descs[a].height # 0 /\ Present(a, high)
        /\ Of(a, "clear", Finalized) = {} => \A n \in 1 .. low - 1 : ~Present(a, n)
    BY <1>3, <2>1, <2>2 DEF SearchOK
  <2>4. low = high /\ low \in 1 .. Finalized /\ Present(a, low)
    BY <1>0, <1>3, <1>4, <2>2, <2>3
  <2>5. a \in Accounts
    BY <1>5, <2>1
  <2>6. PICK f, d : d = descs[a] /\ f = IF low < d.first THEN low ELSE d.first
    OBVIOUS
  <2>7. d.first \in Nat /\ d.height # 0 /\ d.first \in 1 .. Finalized /\ Present(a, d.first)
    BY <2>3, <2>5, <2>6 DEF RowOK, RegType
  <2>8. descs' = [descs EXCEPT ![a].first = f]
    BY <1>3, <2>1, <2>5, <2>6 DEF BackfillFirst, RegType
  <2>9. /\ descs'[a].first = f /\ descs'[a].height = d.height
        /\ \A b \in Accounts : b # a => descs'[b] = descs[b]
    BY <2>5, <2>6, <2>8 DEF RegType
  <2>10. /\ f \in 1 .. Finalized /\ Present(a, f)
         /\ Of(a, "clear", Finalized) = {} => \A n \in 1 .. f - 1 : ~Present(a, n)
    <3>1. CASE low < d.first
      <4>1. f = low
        BY <2>6, <3>1
      <4> QED BY <2>3, <2>4, <4>1
    <3>2. CASE ~(low < d.first)
      <4>1. f = d.first /\ f <= low
        BY <1>4, <2>6, <2>7, <3>2
      <4>2. \A n \in 1 .. f - 1 : n \in 1 .. low - 1
        BY <1>4, <2>7, <4>1
      <4> QED BY <2>3, <2>7, <4>1, <4>2
    <3> QED BY <3>1, <3>2
  <2>11. RowOK(a)'
    BY <2>5, <2>7, <2>9, <2>10, RowStep
  <2>12. ASSUME NEW b \in Accounts, b # a PROVE RowOK(b)'
    <3>1. b \in exact' => b \in exact
      BY <2>1, <2>12
    <3> QED BY <2>9, <2>12, <3>1, RowKept
  <2>13. search'.at = "next" /\ search'.head = head /\ search'.left = search.left
    BY <1>3, <1>11 DEF LowerFirst, RegType
  <2>14. ASSUME NEW b \in search'.left PROVE Present(b, search.head)'
    <3>1. Present(b, head)'
      BY <1>1, <1>5, <2>13
    <3> QED BY <2>13, <3>1 DEF Present, UpdatedAt, Of
  <2> QED BY <2>11, <2>12, <2>13, <2>14 DEF SearchOK
<1> QED BY <1>7, <1>8, <1>9, <1>10, <1>11 DEF Reconstruct

\* Every step keeps the rows and the search in order.
LEMMA RowsStep ==
    ASSUME RegInv, [RegNext]_regVars, RegType'
    PROVE  DescriptorsOK' /\ SearchOK' /\ FirstSeenExact'
<1>1. /\ RegType /\ LockOK /\ SearchOK /\ Extended /\ Finalized \in Nat
      /\ \A a \in Accounts : RowOK(a)
  BY ChainStep, ChainGrows, RowsOK DEF RegInv
<1>2. SUFFICES SearchOK' /\ \A a \in Accounts : RowOK(a)'
  BY DEF RowOK, DescriptorsOK, FirstSeenExact
<1>3. CASE Reconstruct
  BY <1>1, <1>3, ReconstructRows
<1>4. ASSUME NEW a \in Accounts, NEW h \in 0 .. Finalized, UpsertDescriptor(a, h),
             exact' = exact, search' = search
      PROVE  SearchOK' /\ \A b \in Accounts : RowOK(b)'
  BY <1>1, <1>4, UpsertRows, SearchKept
<1>5. ASSUME UNCHANGED <<descs, exact, search>>
      PROVE  SearchOK' /\ \A b \in Accounts : RowOK(b)'
  BY <1>1, <1>5, RowKept, SearchKept
<1>6. CASE DescriptorPage
  <2>1. CASE scan.left = {}
    BY <1>5, <1>6, <2>1 DEF DescriptorPage
  <2>2. CASE scan.left # {}
    <3>1. PICK a \in scan.left : UpsertDescriptor(a, scan.head)
      BY <1>6, <2>2 DEF DescriptorPage
    <3>2. PICK h : h = scan.head
      OBVIOUS
    <3>3. a \in Accounts /\ h \in 0 .. Finalized
      BY <1>1, <3>1, <3>2 DEF RegType, LockOK
    <3> QED BY <1>4, <1>6, <3>1, <3>2, <3>3 DEF DescriptorPage
  <2> QED BY <2>1, <2>2
<1>7. CASE RefreshDescriptor
  <2>1. PICK a, h : a = chain[refresh.block].account /\ h = refresh.head
    OBVIOUS
  <2>2. a \in Accounts /\ h \in 0 .. Finalized
    <3>1. refresh.block \in 1 .. Finalized
      BY <1>1, <1>7 DEF RefreshDescriptor, LockOK
    <3>2. a \in Accounts
      BY <1>1, <2>1, <3>1, EventAccount
    <3>3. h \in Nat /\ h <= Finalized
      BY <1>1, <2>1 DEF RegType, LockOK
    <3> QED BY <1>1, <3>2, <3>3
  <2> QED BY <1>4, <1>7, <2>1, <2>2 DEF RefreshDescriptor
<1>8. CASE ~(Reconstruct \/ DescriptorPage \/ RefreshDescriptor)
  <2>1. UNCHANGED <<descs, exact, search>>
    BY <1>8 DEF RegNext, Reconcile, Refresh, BeginRound, PublishHead, LockScan, PinScan,
                MinerPage, StartRefresh, LockRefresh, PinRefresh, RefreshMiner, RefreshFails,
                ConnectionEnds, Finalize, regVars, rowVars
  <2> QED BY <1>5, <2>1
<1> QED BY <1>3, <1>6, <1>7, <1>8

\* What every state of the registry satisfies.
LEMMA RegistryInvariance == RegSpec => []RegInv
<1>1. RegInit => RegInv
  <2> SUFFICES ASSUME RegInit PROVE RegInv
    OBVIOUS
  <2>1. RegType
    BY DEF RegInit, RegType, ScanIdle, RefreshIdle, SearchIdle
  <2>2. Finalized = 0
    BY DEF RegInit, Finalized
  <2>3. LockOK
    BY <2>2 DEF RegInit, LockOK, ScanHolds, RefreshHolds, ScanIdle, RefreshIdle, SearchIdle
  <2>4. CountersOK
    <3>1. ASSUME NEW a \in Accounts PROVE Proofs(a, Finalized) \in Nat
      <4>1. Finalized \in Nat /\ Finalized <= Finalized
        BY <2>2
      <4> QED BY <4>1, ProofsGrow
    <3> QED BY <3>1 DEF RegInit, CountersOK, ScanIdle, RefreshIdle
  <2>5. DescriptorsOK /\ SearchOK /\ FirstSeenExact
    BY DEF RegInit, DescriptorsOK, SearchOK, FirstSeenExact, SearchIdle
  <2> QED BY <2>1, <2>3, <2>4, <2>5 DEF RegInv
<1>2. RegInv /\ [RegNext]_regVars => RegInv'
  <2> SUFFICES ASSUME RegInv, [RegNext]_regVars PROVE RegInv'
    OBVIOUS
  <2>1. RegType' /\ LockOK'
    BY ControlStep DEF RegInv
  <2>2. CountersOK'
    BY CountersStep DEF RegInv
  <2>3. DescriptorsOK' /\ SearchOK' /\ FirstSeenExact'
    BY <2>1, RowsStep
  <2> QED BY <2>1, <2>2, <2>3 DEF RegInv
<1> QED BY <1>1, <1>2, PTL DEF RegSpec

\* No refresh, walk or restart takes a stored proof counter back, however long the chain
\* and however many the accounts: the lock keeps a walk's block the newest one written from.
THEOREM CountersOnlyGrow == RegSpec => CountersNeverRegress
<1>1. RegInv /\ [RegNext]_regVars => [\A a \in Accounts : miners'[a] >= miners[a]]_regVars
  BY CountersStep DEF RegInv
<1> QED BY <1>1, RegistryInvariance, PTL DEF RegSpec, CountersNeverRegress

\* A stored first block had the descriptor, and the one reconstruct_first_seen wrote is the
\* first of all, for an account that never cleared it: the search between two ends is exact.
THEOREM FirstSeenIsFirst == RegSpec => []FirstSeenExact
<1>1. RegInv => FirstSeenExact
  BY DEF RegInv
<1> QED BY <1>1, RegistryInvariance, PTL
=============================================================================
