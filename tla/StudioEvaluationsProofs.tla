----------------------- MODULE StudioEvaluationsProofs -----------------------
(***************************************************************************)
(* Proofs about StudioEvaluations, for any projects, artifacts and calls.  *)
(***************************************************************************)
EXTENDS StudioEvaluations, TLAPS

-----------------------------------------------------------------------------
(* The inductive invariant                                                 *)

\* The hash of an artifact is that of its text, in a clone under way too.
HashesCover ==
  /\ \A a \in DOMAIN rows : rows[a].hash = rows[a].text
  /\ \A q \in DOMAIN clones : \A i \in DOMAIN clones[q].rows :
       clones[q].rows[i].hash = clones[q].rows[i].text

\* A call has the texts whose hashes it has.
ReadTogether == \A c \in DOMAIN saves : saves[c].hashes = saves[c].texts

\* Foreign keys hold.
ForeignKeysHold ==
  \A e \in DOMAIN evals : \A k \in Kinds :
    evals[e].about[k] # Absent => <<e[1], k, evals[e].about[k]>> \in DOMAIN rows

\* The expectations are those of the texts whose hashes the evaluation has.
DerivedFromHashed ==
  \A e \in DOMAIN evals : ~ evals[e].copied /\ evals[e].about["shape"] # Absent =>
    evals[e].derived = [requirements |-> evals[e].hashes["requirements"],
                        shape |-> evals[e].hashes["shape"]]

SInv == StudioTypeOK /\ HashesCover /\ ReadTogether /\ ForeignKeysHold /\ DerivedFromHashed

-----------------------------------------------------------------------------

\* The invariant holds at the start.
LEMMA SInvInit == StudioInit => SInv
  BY DEF StudioInit, SInv, StudioTypeOK, HashesCover, ReadTogether, ForeignKeysHold,
         DerivedFromHashed, StoredIn

\* What Studio calls fresh rests on the invariant.
LEMMA SInvMeans == SInv => OnlyCopiesMislead
<1> SUFFICES ASSUME SInv, NEW e \in DOMAIN evals
             PROVE  LET about == evals[e].about
                        now(k) == rows[<<e[1], k, about[k]>>].text
                    IN /\ \A k \in Kinds : about[k] # Absent => <<e[1], k, about[k]>> \in DOMAIN rows
                       /\ about["shape"] # Absent /\ Fresh(e) /\ ~ evals[e].copied =>
                            evals[e].derived = [requirements |-> now("requirements"), shape |-> now("shape")]
  BY DEF OnlyCopiesMislead
<1>1. \A k \in Kinds : evals[e].about[k] # Absent => <<e[1], k, evals[e].about[k]>> \in DOMAIN rows
  BY DEF SInv, ForeignKeysHold
<1>2. evals[e].about["requirements"] # Absent
  BY DEF SInv, StudioTypeOK, StoredIn, About
<1>3. ASSUME evals[e].about["shape"] # Absent, Fresh(e), ~ evals[e].copied
      PROVE  evals[e].derived = [requirements |-> rows[<<e[1], "requirements", evals[e].about["requirements"]>>].text,
                                 shape |-> rows[<<e[1], "shape", evals[e].about["shape"]>>].text]
  <2>1. /\ evals[e].hashes["requirements"] = rows[<<e[1], "requirements", evals[e].about["requirements"]>>].hash
        /\ evals[e].hashes["shape"] = rows[<<e[1], "shape", evals[e].about["shape"]>>].hash
    BY <1>2, <1>3 DEF Fresh, HashNow, Kinds
  <2>2. /\ evals[e].hashes["requirements"] = rows[<<e[1], "requirements", evals[e].about["requirements"]>>].text
        /\ evals[e].hashes["shape"] = rows[<<e[1], "shape", evals[e].about["shape"]>>].text
    BY <2>1, <1>1, <1>2, <1>3 DEF SInv, HashesCover, Kinds
  <2>. QED BY <2>2, <1>3 DEF SInv, DerivedFromHashed
<1>. QED BY <1>1, <1>3

-----------------------------------------------------------------------------
(* Steps                                                                   *)

\* What touches neither artifacts nor evaluations, nor what was read of them.
LEMMA ProjectCreated == ASSUME SInv, NEW p \in Projects, CreateProject(p) PROVE SInv'
  BY StudioAssumption DEF CreateProject, SInv, StudioTypeOK, HashesCover, ReadTogether,
     ForeignKeysHold, DerivedFromHashed, StoredIn, Places

\* What goes with a project is all that referred to its artifacts.
LEMMA ProjectDeleted == ASSUME SInv, NEW p \in Places, DeleteProject(p) PROVE SInv'
<1>1. StudioTypeOK'
  BY DEF DeleteProject, SInv, StudioTypeOK, StoredIn, Restrict
<1>2. ForeignKeysHold'
  BY DEF DeleteProject, SInv, ForeignKeysHold, Restrict
<1>3. HashesCover' /\ ReadTogether' /\ DerivedFromHashed'
  BY DEF DeleteProject, SInv, HashesCover, ReadTogether, DerivedFromHashed, Restrict
<1>. QED BY <1>1, <1>2, <1>3 DEF SInv

\* An artifact is stored with its hash.
LEMMA ArtifactCreated ==
  ASSUME SInv, NEW p \in Places, NEW k \in Kinds, NEW n \in Names, NEW on \in Names \cup {Absent},
         NEW text \in Texts[k], CreateArtifact(p, k, n, on, text)
  PROVE  SInv'
<1>1. text \in Says
  BY DEF Says
<1>2. StudioTypeOK'
  BY <1>1 DEF CreateArtifact, SInv, StudioTypeOK, StoredIn, Row
<1>3. ForeignKeysHold'
  BY DEF CreateArtifact, SInv, ForeignKeysHold
<1>4. HashesCover' /\ ReadTogether' /\ DerivedFromHashed'
  BY DEF CreateArtifact, SInv, HashesCover, ReadTogether, DerivedFromHashed
<1>. QED BY <1>2, <1>3, <1>4 DEF SInv

\* An update stores both.
LEMMA ArtifactUpdated ==
  ASSUME SInv, NEW a \in Artifacts, NEW text \in Texts[a[2]], UpdateArtifact(a, text)
  PROVE  SInv'
<1>1. text \in Says
  BY DEF Says, Artifacts
<1>2. StudioTypeOK'
  BY <1>1 DEF UpdateArtifact, SInv, StudioTypeOK, StoredIn, Row
<1>3. ForeignKeysHold'
  BY DEF UpdateArtifact, SInv, ForeignKeysHold
<1>4. HashesCover' /\ ReadTogether' /\ DerivedFromHashed'
  BY DEF UpdateArtifact, SInv, StudioTypeOK, StoredIn, Row, HashesCover, ReadTogether, DerivedFromHashed
<1>. QED BY <1>2, <1>3, <1>4 DEF SInv

\* What an evaluation is about is not deleted.
LEMMA ArtifactDeleted == ASSUME SInv, NEW a \in Artifacts, DeleteArtifact(a) PROVE SInv'
<1>1. StudioTypeOK'
  BY DEF DeleteArtifact, SInv, StudioTypeOK, StoredIn, Restrict
<1>2. ForeignKeysHold'
  <2>. SUFFICES ASSUME NEW e \in DOMAIN evals, NEW k \in Kinds, evals[e].about[k] # Absent
                PROVE  <<e[1], k, evals[e].about[k]>> # a
    BY DEF DeleteArtifact, SInv, ForeignKeysHold, Restrict
  <2>1. ~ (e[1] = a[1] /\ evals[e].about[a[2]] = a[3])
    BY DEF DeleteArtifact
  <2>. QED BY <2>1
<1>3. HashesCover' /\ ReadTogether' /\ DerivedFromHashed'
  BY DEF DeleteArtifact, SInv, HashesCover, ReadTogether, DerivedFromHashed, Restrict
<1>. QED BY <1>1, <1>2, <1>3 DEF SInv

\* Before it has read, a call has neither hashes nor texts.
LEMMA SaveBegun ==
  ASSUME SInv, NEW c \in Saves, NEW p \in Places, NEW about \in Abouts, BeginSave(c, p, about)
  PROVE  SInv'
<1>1. Save(p, about, Nothing, Nothing, 1)
        \in [project : Places, about : About, hashes : [Kinds -> Says], texts : [Kinds -> Says], step : 1..5]
  <2>1. about \in About
    BY StudioAssumption
  <2>2. Nothing \in [Kinds -> Says]
    BY DEF Nothing, Says
  <2>. QED BY <2>1, <2>2 DEF Save
<1>2. StudioTypeOK'
  BY <1>1 DEF BeginSave, SInv, StudioTypeOK, StoredIn
<1>3. HashesCover' /\ ReadTogether' /\ ForeignKeysHold' /\ DerivedFromHashed'
  BY DEF BeginSave, Save, SInv, HashesCover, ReadTogether, ForeignKeysHold, DerivedFromHashed
<1>. QED BY <1>2, <1>3 DEF SInv

\* A text is read with its hash.
LEMMA ArtifactRead == ASSUME SInv, NEW c \in Saves, ReadArtifact(c) PROVE SInv'
<1> DEFINE s == saves[c]
           k == SaveOrder[s.step]
           a == <<s.project, k, s.about[k]>>
           T == [project : Places, about : About, hashes : [Kinds -> Says], texts : [Kinds -> Says], step : 1..5]
<1>1. c \in DOMAIN saves /\ saves[c] \in T /\ saves[c].step \in 1..4 /\ saves[c].hashes = saves[c].texts
  BY DEF ReadArtifact, SInv, StudioTypeOK, StoredIn, ReadTogether
<1>2. k \in Kinds
  BY <1>1 DEF SaveOrder, Kinds
<1>3. PICK t : /\ saves' = [saves EXCEPT ![c] = t] /\ UNCHANGED <<projects, rows, evals, clones>>
               /\ t \in T /\ t.hashes = t.texts
  <2>1. CASE s.about[k] = Absent
    <3>1. Save(s.project, s.about, s.hashes, s.texts, s.step + 1) \in T
      BY <1>1 DEF Save
    <3>. QED BY <1>1, <2>1, <3>1 DEF ReadArtifact, Save
  <2>2. CASE s.about[k] # Absent
    <3>1. a \in DOMAIN rows
      BY <2>2 DEF ReadArtifact
    <3>2. rows[a].hash \in Says /\ rows[a].text = rows[a].hash
      BY <3>1 DEF SInv, StudioTypeOK, StoredIn, Row, HashesCover
    <3> DEFINE h == [s.hashes EXCEPT ![k] = rows[a].hash]
    <3>3. h \in [Kinds -> Says] /\ [s.texts EXCEPT ![k] = rows[a].text] = h
      BY <1>1, <1>2, <3>2
    <3>4. Save(s.project, s.about, h, h, s.step + 1) \in T
      BY <1>1, <3>3 DEF Save
    <3>5. saves' = [saves EXCEPT ![c] = Save(s.project, s.about, h, h, s.step + 1)]
      BY <2>2, <3>3 DEF ReadArtifact
    <3>6. Save(s.project, s.about, h, h, s.step + 1).hashes = Save(s.project, s.about, h, h, s.step + 1).texts
      BY DEF Save
    <3>7. UNCHANGED <<projects, rows, evals, clones>>
      BY DEF ReadArtifact
    <3>. HIDE DEF h, T, s
    <3>. QED BY <3>4, <3>5, <3>6, <3>7
  <2>. QED BY <2>1, <2>2
<1>4. StudioTypeOK'
  BY <1>3 DEF SInv, StudioTypeOK, StoredIn
<1>5. HashesCover' /\ ReadTogether' /\ ForeignKeysHold' /\ DerivedFromHashed'
  BY <1>3 DEF SInv, HashesCover, ReadTogether, ForeignKeysHold, DerivedFromHashed
<1>. QED BY <1>4, <1>5 DEF SInv

\* What is inserted was read together, and is about what is there.
LEMMA EvaluationInserted == ASSUME SInv, NEW c \in Saves, InsertEvaluation(c) PROVE SInv'
<1> DEFINE s == saves[c]
           v == [about |-> s.about, hashes |-> s.hashes, derived |-> Derived(s), copied |-> FALSE]
           E == [about : About, hashes : [Kinds -> Says], copied : BOOLEAN,
                 derived : {Absent} \cup [requirements : Says, shape : Says]]
<1>1. /\ c \in DOMAIN saves /\ s.about \in About /\ s.hashes \in [Kinds -> Says]
      /\ s.texts \in [Kinds -> Says] /\ s.hashes = s.texts
  BY DEF InsertEvaluation, SInv, StudioTypeOK, StoredIn, ReadTogether
<1>2. v \in E
  BY <1>1 DEF Derived, Kinds
<1>3. v.about["shape"] # Absent =>
        v.derived = [requirements |-> v.hashes["requirements"], shape |-> v.hashes["shape"]]
  BY <1>1 DEF Derived
<1>4. /\ s.project \in projects
      /\ \A k \in Kinds : s.about[k] # Absent => <<s.project, k, s.about[k]>> \in DOMAIN rows
      /\ evals' = [e \in DOMAIN evals \cup {<<s.project, c>>} |-> IF e = <<s.project, c>> THEN v ELSE evals[e]]
      /\ saves' = Restrict(saves, DOMAIN saves \ {c})
      /\ UNCHANGED <<projects, rows, clones>>
  BY DEF InsertEvaluation, Ended
<1>5. ForeignKeysHold'
  <2>1. \A k \in Kinds : v.about[k] # Absent => <<s.project, k, v.about[k]>> \in DOMAIN rows
    BY <1>4
  <2>2. <<s.project, c>>[1] = s.project
    OBVIOUS
  <2>. HIDE DEF v, s
  <2>. QED BY <1>4, <2>1, <2>2 DEF SInv, ForeignKeysHold
<1>6. StudioTypeOK'
  <2>. HIDE DEF v, s
  <2>. QED BY <1>2, <1>4 DEF SInv, StudioTypeOK, StoredIn, Restrict
<1>7. DerivedFromHashed'
  <2>. HIDE DEF v, s
  <2>. QED BY <1>3, <1>4 DEF SInv, DerivedFromHashed
<1>8. HashesCover' /\ ReadTogether'
  BY <1>4 DEF SInv, HashesCover, ReadTogether, Restrict
<1>. QED BY <1>5, <1>6, <1>7, <1>8 DEF SInv

\* A call that ends leaves the rest as it was.
LEMMA SaveFailed == ASSUME SInv, NEW c \in Saves, SaveFails(c) PROVE SInv'
<1>1. saves' = Restrict(saves, DOMAIN saves \ {c}) /\ UNCHANGED <<projects, rows, evals, clones>>
  BY DEF SaveFails, Ended
<1>2. StudioTypeOK'
  BY <1>1 DEF SInv, StudioTypeOK, StoredIn, Restrict
<1>3. HashesCover' /\ ReadTogether' /\ ForeignKeysHold' /\ DerivedFromHashed'
  BY <1>1 DEF SInv, HashesCover, ReadTogether, ForeignKeysHold, DerivedFromHashed, Restrict
<1>. QED BY <1>2, <1>3 DEF SInv

\* So does an evaluation that is deleted.
LEMMA EvaluationDeleted == ASSUME SInv, NEW e \in Places \X Saves, DeleteEvaluation(e) PROVE SInv'
<1>1. evals' = Restrict(evals, DOMAIN evals \ {e}) /\ UNCHANGED <<projects, rows, saves, clones>>
  BY DEF DeleteEvaluation
<1>2. StudioTypeOK'
  BY <1>1 DEF SInv, StudioTypeOK, StoredIn, Restrict
<1>3. HashesCover' /\ ReadTogether' /\ ForeignKeysHold' /\ DerivedFromHashed'
  BY <1>1 DEF SInv, HashesCover, ReadTogether, ForeignKeysHold, DerivedFromHashed, Restrict
<1>. QED BY <1>2, <1>3 DEF SInv

\* A clone starts empty.
LEMMA CloneBegun == ASSUME SInv, NEW q \in Clones, NEW p \in Places, BeginClone(q, p) PROVE SInv'
<1> DEFINE known == {<<a[2], a[3]>> : a \in {b \in DOMAIN rows : b[1] = p}}
           c == Clone(p, known, [i \in {} |-> Absent], 1)
<1>1. /\ q \notin projects /\ UNCHANGED <<projects, rows, evals, saves>>
      /\ clones' = [r \in DOMAIN clones \cup {q} |-> IF r = q THEN c ELSE clones[r]]
  BY DEF BeginClone
<1>2. known \subseteq Kinds \X Names
  BY DEF SInv, StudioTypeOK, StoredIn
<1>3. /\ c.source \in Places /\ c.step \in 1..5 /\ c.known \subseteq Kinds \X Names
      /\ DOMAIN c.rows = {}
  BY <1>2 DEF Clone
<1>. HIDE DEF c
<1>4. StudioTypeOK'
  BY <1>1, <1>3 DEF SInv, StudioTypeOK, StoredIn
<1>5. HashesCover' /\ ReadTogether' /\ ForeignKeysHold' /\ DerivedFromHashed'
  BY <1>1, <1>3 DEF SInv, HashesCover, ReadTogether, ForeignKeysHold, DerivedFromHashed
<1>. QED BY <1>4, <1>5 DEF SInv

\* A copy has the hash of its text.
LEMMA KindCopied == ASSUME SInv, NEW q \in Clones, CopyKind(q) PROVE SInv'
<1> DEFINE c == clones[q]
           k == CloneOrder[c.step]
           found == {n \in Names : <<c.source, k, n>> \in DOMAIN rows}
           row(n) == rows[<<c.source, k, n>>]
           copies == [i \in DOMAIN c.rows \cup {<<k, n>> : n \in found} |->
                        IF i[1] = k /\ i[2] \in found
                        THEN [text |-> row(i[2]).text, hash |-> row(i[2]).text, on |-> row(i[2]).on]
                        ELSE c.rows[i]]
           d == Clone(c.source, c.known, copies, c.step + 1)
<1>1. /\ q \in DOMAIN clones /\ c.step \in 1..4 /\ q \in Clones \ projects
      /\ c.source \in Places /\ c.known \subseteq Kinds \X Names
      /\ StoredIn(c.rows, Kinds \X Names, Row)
      /\ \A i \in DOMAIN c.rows : c.rows[i].hash = c.rows[i].text
  BY DEF CopyKind, SInv, StudioTypeOK, HashesCover
<1>2. clones' = [clones EXCEPT ![q] = d] /\ UNCHANGED <<projects, rows, evals, saves>>
  BY DEF CopyKind
<1>3. k \in Kinds
  BY <1>1 DEF CloneOrder, Kinds
<1>4. \A i \in DOMAIN copies : i \in Kinds \X Names /\ (~ (i[1] = k /\ i[2] \in found) => i \in DOMAIN c.rows)
  <2>1. \A i \in DOMAIN c.rows : i \in Kinds \X Names
    BY <1>1 DEF StoredIn
  <2>2. \A n \in found : <<k, n>> \in Kinds \X Names /\ <<k, n>>[1] = k /\ <<k, n>>[2] = n
    BY <1>3
  <2>. HIDE DEF k, c, found
  <2>. QED BY <2>1, <2>2
<1>5. ASSUME NEW i \in DOMAIN copies
      PROVE  copies[i] \in Row /\ copies[i].hash = copies[i].text
  <2>1. CASE ~ (i[1] = k /\ i[2] \in found)
    <3>1. i \in DOMAIN c.rows /\ copies[i] = c.rows[i]
      BY <1>4, <2>1
    <3>. QED BY <1>1, <3>1 DEF StoredIn
  <2>2. CASE i[1] = k /\ i[2] \in found
    <3>1. row(i[2]) \in Row
      BY <2>2 DEF SInv, StudioTypeOK, StoredIn
    <3>2. copies[i] = [text |-> row(i[2]).text, hash |-> row(i[2]).text, on |-> row(i[2]).on]
      BY <2>2
    <3>. HIDE DEF row, copies
    <3>. QED BY <3>1, <3>2 DEF Row
  <2>. QED BY <2>1, <2>2
<1>6. /\ d.source \in Places /\ d.step \in 1..5 /\ d.known \subseteq Kinds \X Names
      /\ StoredIn(d.rows, Kinds \X Names, Row)
      /\ \A i \in DOMAIN d.rows : d.rows[i].hash = d.rows[i].text
  <2>1. d.source = c.source /\ d.known = c.known /\ d.rows = copies /\ d.step = c.step + 1
    BY DEF Clone
  <2>2. StoredIn(copies, Kinds \X Names, Row)
    <3>. HIDE DEF copies
    <3>. QED BY <1>4, <1>5 DEF StoredIn
  <2>. HIDE DEF copies, c, d
  <2>. QED BY <1>1, <1>5, <2>1, <2>2
<1>. HIDE DEF d
<1>7. StudioTypeOK'
  BY <1>1, <1>2, <1>6 DEF SInv, StudioTypeOK
<1>8. HashesCover' /\ ReadTogether' /\ ForeignKeysHold' /\ DerivedFromHashed'
  BY <1>1, <1>2, <1>6 DEF SInv, HashesCover, ReadTogether, ForeignKeysHold, DerivedFromHashed
<1>. QED BY <1>7, <1>8 DEF SInv

\* A copied evaluation is about copies, and is marked.
LEMMA CloneFinished == ASSUME SInv, NEW q \in Clones, FinishClone(q) PROVE SInv'
<1> DEFINE c == clones[q]
           copies == {<<q, e[2]>> : e \in {d \in DOMAIN evals : d[1] = c.source}}
           old(e) == evals[<<c.source, e[2]>>]
           E == [about : About, hashes : [Kinds -> Says], copied : BOOLEAN,
                 derived : {Absent} \cup [requirements : Says, shape : Says]]
<1>1. /\ q \in DOMAIN clones /\ q \in Places \ projects
      /\ StoredIn(c.rows, Kinds \X Names, Row)
      /\ \A i \in DOMAIN c.rows : c.rows[i].hash = c.rows[i].text
  BY DEF FinishClone, SInv, StudioTypeOK, HashesCover, Places
<1>2. /\ projects' = projects \cup {q}
      /\ rows' = [a \in DOMAIN rows \cup {<<q, i[1], i[2]>> : i \in DOMAIN c.rows} |->
                    IF a[1] = q THEN c.rows[<<a[2], a[3]>>] ELSE rows[a]]
      /\ evals' = [e \in DOMAIN evals \cup copies |-> IF e[1] = q THEN CopyOf(old(e), c) ELSE evals[e]]
      /\ clones' = Restrict(clones, DOMAIN clones \ {q})
      /\ saves' = saves
  BY DEF FinishClone
<1>3. \A e \in copies : CanCopy(old(e), c)
  BY DEF FinishClone
<1>4. \A e \in DOMAIN evals : e \in projects \X Saves /\ e[1] # q /\ evals[e] \in E
  BY <1>1 DEF SInv, StudioTypeOK, StoredIn
<1>5. \A a \in DOMAIN rows : a \in projects \X Kinds \X Names /\ a[1] # q /\ rows[a] \in Row
  BY <1>1 DEF SInv, StudioTypeOK, StoredIn
<1>6. ASSUME NEW e \in copies
      PROVE  e \in {q} \X Saves /\ e[1] = q /\ old(e) \in E
  BY <1>4
<1>7. ASSUME NEW a \in DOMAIN rows' \ DOMAIN rows
      PROVE  /\ a \in {q} \X Kinds \X Names /\ a[1] = q
             /\ <<a[2], a[3]>> \in DOMAIN c.rows /\ rows'[a] = c.rows[<<a[2], a[3]>>]
  <2>1. PICK i \in DOMAIN c.rows : a = <<q, i[1], i[2]>>
    BY <1>2
  <2>2. i \in Kinds \X Names /\ i = <<i[1], i[2]>>
    BY <1>1 DEF StoredIn
  <2>3. a[1] = q /\ a[2] = i[1] /\ a[3] = i[2]
    BY <2>1
  <2>. QED BY <1>2, <2>1, <2>2, <2>3
<1>8. \A a \in DOMAIN rows : a \in DOMAIN rows' /\ rows'[a] = rows[a]
  BY <1>2, <1>5
<1>9. ASSUME NEW e \in copies
      PROVE  /\ CopyOf(old(e), c) \in E /\ CopyOf(old(e), c).copied
             /\ \A k \in Kinds : CopyOf(old(e), c).about[k] # Absent =>
                  <<q, k, CopyOf(old(e), c).about[k]>> \in DOMAIN rows'
  <2> DEFINE v == old(e)
  <2>1. v \in E /\ CanCopy(v, c)
    BY <1>3, <1>6
  <2>. HIDE DEF v, c
  <2>2. \A k \in {"requirements", "scenario"} : <<k, v.about[k]>> \in DOMAIN c.rows
    BY <2>1 DEF CanCopy, About, Kinds, Answering
  <2>3. \A k \in Kinds : <<k, v.about[k]>> \in DOMAIN c.rows => c.rows[<<k, v.about[k]>>].hash \in Says
    BY <1>1 DEF StoredIn, Row
  <2>4. CopyOf(v, c).about \in About
    BY <2>1, <2>2 DEF CopyOf, About, Kinds
  <2>5. CopyOf(v, c).hashes \in [Kinds -> Says]
    BY <2>1, <2>3 DEF CopyOf
  <2>6. CopyOf(v, c) \in E /\ CopyOf(v, c).copied
    BY <2>1, <2>4, <2>5 DEF CopyOf
  <2>7. ASSUME NEW k \in Kinds, CopyOf(v, c).about[k] # Absent
        PROVE  <<q, k, CopyOf(v, c).about[k]>> \in DOMAIN rows'
    <3>1. <<k, v.about[k]>> \in DOMAIN c.rows /\ CopyOf(v, c).about[k] = v.about[k]
      BY <2>7 DEF CopyOf
    <3>2. <<k, v.about[k]>>[1] = k /\ <<k, v.about[k]>>[2] = v.about[k]
      OBVIOUS
    <3>. QED BY <1>2, <3>1, <3>2
  <2>. QED BY <2>6, <2>7 DEF v
<1>10. \A e \in DOMAIN evals' :
         \/ e \in DOMAIN evals /\ evals'[e] = evals[e]
         \/ e \in copies /\ e[1] = q /\ evals'[e] = CopyOf(old(e), c)
  BY <1>2, <1>4, <1>6
<1>. HIDE DEF c, copies, old
<1>11. StudioTypeOK'
  <2>1. projects' \subseteq Places
    BY <1>1, <1>2 DEF SInv, StudioTypeOK
  <2>2. StoredIn(rows', projects' \X Kinds \X Names, Row)
    BY <1>1, <1>2, <1>5, <1>7, <1>8 DEF StoredIn
  <2>3. StoredIn(evals', projects' \X Saves, E)
    BY <1>2, <1>4, <1>6, <1>9, <1>10 DEF StoredIn
  <2>4. DOMAIN clones' \subseteq Clones \ projects' /\ \A r \in DOMAIN clones' : r \in DOMAIN clones /\ clones'[r] = clones[r]
    BY <1>2 DEF SInv, StudioTypeOK, Restrict
  <2>. QED BY <1>2, <2>1, <2>2, <2>3, <2>4 DEF SInv, StudioTypeOK
<1>12. ForeignKeysHold'
  <2>. SUFFICES ASSUME NEW e \in DOMAIN evals', NEW k \in Kinds, evals'[e].about[k] # Absent
                PROVE  <<e[1], k, evals'[e].about[k]>> \in DOMAIN rows'
    BY DEF ForeignKeysHold
  <2>1. CASE e \in DOMAIN evals /\ evals'[e] = evals[e]
    BY <1>8, <2>1 DEF SInv, ForeignKeysHold
  <2>2. CASE e \in copies /\ e[1] = q /\ evals'[e] = CopyOf(old(e), c)
    BY <1>9, <2>2
  <2>. QED BY <1>10, <2>1, <2>2
<1>13. DerivedFromHashed'
  BY <1>9, <1>10 DEF SInv, DerivedFromHashed
<1>14. HashesCover'
  <2>1. \A a \in DOMAIN rows' : rows'[a].hash = rows'[a].text
    <3>. SUFFICES ASSUME NEW a \in DOMAIN rows' PROVE rows'[a].hash = rows'[a].text
      OBVIOUS
    <3>1. CASE a \in DOMAIN rows
      BY <1>8, <3>1 DEF SInv, HashesCover
    <3>2. CASE a \notin DOMAIN rows
      <4>1. <<a[2], a[3]>> \in DOMAIN c.rows /\ rows'[a] = c.rows[<<a[2], a[3]>>]
        BY <1>7, <3>2
      <4>. QED BY <1>1, <4>1
    <3>. QED BY <3>1, <3>2
  <2>2. \A r \in DOMAIN clones' : r \in DOMAIN clones /\ clones'[r] = clones[r]
    BY <1>2 DEF Restrict
  <2>. QED BY <2>1, <2>2 DEF SInv, HashesCover
<1>15. ReadTogether'
  BY <1>2 DEF SInv, ReadTogether
<1>. QED BY <1>11, <1>12, <1>13, <1>14, <1>15 DEF SInv

\* A clone that is rolled back leaves nothing.
LEMMA CloneFailed == ASSUME SInv, NEW q \in Clones, CloneFails(q) PROVE SInv'
<1>1. clones' = Restrict(clones, DOMAIN clones \ {q}) /\ UNCHANGED <<projects, rows, evals, saves>>
  BY DEF CloneFails
<1>2. StudioTypeOK'
  BY <1>1 DEF SInv, StudioTypeOK, Restrict
<1>3. HashesCover' /\ ReadTogether' /\ ForeignKeysHold' /\ DerivedFromHashed'
  BY <1>1 DEF SInv, HashesCover, ReadTogether, ForeignKeysHold, DerivedFromHashed, Restrict
<1>. QED BY <1>2, <1>3 DEF SInv

\* Every step keeps the invariant.
LEMMA NextSInv == SInv /\ [StudioNext]_studioVars => SInv'
<1>. SUFFICES ASSUME SInv, [StudioNext]_studioVars PROVE SInv'
  OBVIOUS
<1>1. CASE UNCHANGED studioVars
  BY <1>1 DEF studioVars, SInv, StudioTypeOK, HashesCover, ReadTogether, ForeignKeysHold, DerivedFromHashed
<1>2. CASE \/ \E p \in Projects : CreateProject(p)
           \/ \E p \in Places : DeleteProject(p)
  BY <1>2, ProjectCreated, ProjectDeleted
<1>3. CASE \E p \in Places, k \in Kinds, n \in Names, on \in Names \cup {Absent} :
             \E text \in Texts[k] : CreateArtifact(p, k, n, on, text)
  BY <1>3, ArtifactCreated
<1>4. CASE \E a \in Artifacts : DeleteArtifact(a) \/ \E text \in Texts[a[2]] : UpdateArtifact(a, text)
  BY <1>4, ArtifactDeleted, ArtifactUpdated
<1>5. CASE \E c \in Saves, p \in Places, about \in Abouts : BeginSave(c, p, about)
  BY <1>5, SaveBegun
<1>6. CASE \E c \in Saves : ReadArtifact(c) \/ InsertEvaluation(c) \/ SaveFails(c)
  BY <1>6, ArtifactRead, EvaluationInserted, SaveFailed
<1>7. CASE \E e \in Places \X Saves : DeleteEvaluation(e)
  BY <1>7, EvaluationDeleted
<1>8. CASE \E q \in Clones, p \in Places : BeginClone(q, p)
  BY <1>8, CloneBegun
<1>9. CASE \E q \in Clones : CopyKind(q) \/ FinishClone(q) \/ CloneFails(q)
  BY <1>9, KindCopied, CloneFinished, CloneFailed
<1>. QED BY <1>1, <1>2, <1>3, <1>4, <1>5, <1>6, <1>7, <1>8, <1>9 DEF StudioNext

-----------------------------------------------------------------------------
(* Theorems                                                                *)

\* The types, and that what is in a project goes with it.
THEOREM StudioTypeCorrect == StudioSpec => []StudioTypeOK
<1>1. SInv => StudioTypeOK
  BY DEF SInv
<1>. QED BY <1>1, SInvInit, NextSInv, PTL DEF StudioSpec

\* Whatever is edited, deleted or cloned while an evaluation is saved, one that
\* is fresh and did not come with a clone has the expectations of the present
\* requirements and shape.
THEOREM FreshMeansCurrent == StudioSpec => []OnlyCopiesMislead
  BY SInvInit, NextSInv, SInvMeans, PTL DEF StudioSpec

=============================================================================
