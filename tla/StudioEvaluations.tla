-------------------------- MODULE StudioEvaluations --------------------------
(***************************************************************************)
(* Projects of Studio, the artifacts in them, and the evaluations that     *)
(* relate artifacts: src/studio/server/repository.py on PostgreSQL.        *)
(*                                                                         *)
(* An evaluation keeps the content hash of every artifact it is about, and *)
(* the expectations derived from its requirements and its shape.  It is    *)
(* fresh as long as the hashes are those of the artifacts.  Saving one and *)
(* cloning a project take several statements, each of which sees what has  *)
(* been committed by then; only the last one commits.  The other           *)
(* operations succeed or fail in the statement that writes.                *)
(*                                                                         *)
(* A hash is the text it covers.  Identifiers are those of one project: an *)
(* artifact is named by its project, its kind and its name, and the copy   *)
(* of one by its name in the clone.                                        *)
(***************************************************************************)
EXTENDS Integers, Functions

CONSTANTS
  Projects,  \* the projects users create
  Clones,    \* the projects that calls of clone_project make
  Names,     \* names of artifacts
  Texts,     \* what an artifact of a kind may say: a set for each kind
  Saves,     \* calls of create_evaluation, and the evaluations they insert
  Abouts,    \* what these calls ask for: a name, or Absent, for each kind
  Absent

\* create_evaluation reads the artifacts in this order.
Kinds == {"requirements", "proposal", "scenario", "shape"}
SaveOrder == <<"requirements", "proposal", "scenario", "shape">>

\* _clone_project_into copies them in this one.
CloneOrder == <<"requirements", "scenario", "proposal", "shape">>

\* Proposals and shapes answer to requirements.
Answering == {"proposal", "shape"}

About == {a \in [Kinds -> Names \cup {Absent}] : Absent \notin {a["requirements"], a["scenario"]}}

ASSUME StudioAssumption ==
  /\ Projects \cap Clones = {}
  /\ Abouts \subseteq About
  /\ Absent \notin Names
  /\ DOMAIN Texts = Kinds /\ \A k \in Kinds : Absent \notin Texts[k]

VARIABLES
  projects,  \* the projects stored
  rows,      \* the artifacts stored: [text, hash, on] by <<project, kind, name>>
  evals,     \* the evaluations stored, by <<project, call>>
  saves,     \* local state of create_evaluation, by call
  clones     \* local state of _clone_project_into, by clone

studioVars == <<projects, rows, evals, saves, clones>>

Places == Projects \cup Clones
Artifacts == Places \X Kinds \X Names
Says == {Absent} \cup UNION {Texts[k] : k \in Kinds}

StudioInit ==
  /\ projects = {}
  /\ rows = [a \in {} |-> Absent]
  /\ evals = [e \in {} |-> Absent]
  /\ saves = [c \in {} |-> Absent]
  /\ clones = [q \in {} |-> Absent]

-----------------------------------------------------------------------------
(* Projects and artifacts                                                  *)

CreateProject(p) ==
  /\ p \notin projects
  /\ projects' = projects \cup {p}
  /\ UNCHANGED <<rows, evals, saves, clones>>

\* What is in the project goes with it.
DeleteProject(p) ==
  /\ p \in projects
  /\ projects' = projects \ {p}
  /\ rows' = Restrict(rows, {a \in DOMAIN rows : a[1] # p})
  /\ evals' = Restrict(evals, {e \in DOMAIN evals : e[1] # p})
  /\ UNCHANGED <<saves, clones>>

\* create_requirements and the like; on is the name of the requirements.
CreateArtifact(p, k, n, on, text) ==
  /\ p \in projects /\ <<p, k, n>> \notin DOMAIN rows
  /\ IF k \in Answering THEN <<p, "requirements", on>> \in DOMAIN rows ELSE on = Absent
  /\ rows' = [a \in DOMAIN rows \cup {<<p, k, n>>} |->
                IF a = <<p, k, n>> THEN [text |-> text, hash |-> text, on |-> on] ELSE rows[a]]
  /\ UNCHANGED <<projects, evals, saves, clones>>

\* Mutant: the hash is that of the first text.
UpdateArtifactKeepingHash(a, text) ==
  /\ a \in DOMAIN rows
  /\ rows' = [rows EXCEPT ![a] = [@ EXCEPT !.text = text]]
  /\ UNCHANGED <<projects, evals, saves, clones>>

\* An update of the data computes the hash again.
UpdateArtifact(a, text) ==
  /\ a \in DOMAIN rows
  /\ rows' = [rows EXCEPT ![a] = [@ EXCEPT !.text = text, !.hash = text]]
  /\ UNCHANGED <<projects, evals, saves, clones>>

\* Refused, by a query or by the foreign key, while something refers to it.
DeleteArtifact(a) ==
  /\ a \in DOMAIN rows
  /\ ~ \E b \in DOMAIN rows :
         a[2] = "requirements" /\ b[1] = a[1] /\ b[2] \in Answering /\ rows[b].on = a[3]
  /\ ~ \E e \in DOMAIN evals : e[1] = a[1] /\ evals[e].about[a[2]] = a[3]
  /\ rows' = Restrict(rows, DOMAIN rows \ {a})
  /\ UNCHANGED <<projects, evals, saves, clones>>

-----------------------------------------------------------------------------
(* Evaluations                                                             *)

\* Up to step, the hashes and the texts of what the call is about.
Save(p, about, hashes, texts, step) ==
  [project |-> p, about |-> about, hashes |-> hashes, texts |-> texts, step |-> step]

Nothing == [k \in Kinds |-> Absent]

\* get_project and assert_same_project let the call through.
BeginSave(c, p, about) ==
  /\ c \notin DOMAIN saves /\ \A e \in DOMAIN evals : e[2] # c
  /\ p \in projects
  /\ \A k \in Kinds : about[k] # Absent => <<p, k, about[k]>> \in DOMAIN rows
  /\ saves' = [d \in DOMAIN saves \cup {c} |->
                 IF d = c THEN Save(p, about, Nothing, Nothing, 1) ELSE saves[d]]
  /\ UNCHANGED <<projects, rows, evals, clones>>

\* The next artifact asked for is read, if it is still there.
ReadArtifact(c) ==
  /\ c \in DOMAIN saves /\ saves[c].step \in 1..4
  /\ LET s == saves[c]
         k == SaveOrder[s.step]
         a == <<s.project, k, s.about[k]>>
     IN \/ /\ s.about[k] = Absent
           /\ saves' = [saves EXCEPT ![c] = Save(s.project, s.about, s.hashes, s.texts, s.step + 1)]
        \/ /\ s.about[k] # Absent /\ a \in DOMAIN rows
           /\ saves' = [saves EXCEPT ![c] =
                          Save(s.project, s.about, [s.hashes EXCEPT ![k] = rows[a].hash],
                               [s.texts EXCEPT ![k] = rows[a].text], s.step + 1)]
  /\ UNCHANGED <<projects, rows, evals, clones>>

Ended(c) == saves' = Restrict(saves, DOMAIN saves \ {c})

\* derive_contract_expectations, of what was read.
Derived(s) ==
  IF s.about["shape"] = Absent THEN Absent
  ELSE [requirements |-> s.texts["requirements"], shape |-> s.texts["shape"]]

\* The insert holds if its foreign keys do.
InsertEvaluation(c) ==
  /\ c \in DOMAIN saves /\ saves[c].step = 5
  /\ LET s == saves[c]
     IN /\ s.project \in projects
        /\ \A k \in Kinds : s.about[k] # Absent => <<s.project, k, s.about[k]>> \in DOMAIN rows
        /\ evals' = [e \in DOMAIN evals \cup {<<s.project, c>>} |->
                       IF e = <<s.project, c>>
                       THEN [about |-> s.about, hashes |-> s.hashes, derived |-> Derived(s),
                             copied |-> FALSE]
                       ELSE evals[e]]
  /\ Ended(c)
  /\ UNCHANGED <<projects, rows, clones>>

\* An artifact is gone, a foreign key does not hold, a statement fails.
SaveFails(c) ==
  /\ c \in DOMAIN saves
  /\ Ended(c)
  /\ UNCHANGED <<projects, rows, evals, clones>>

DeleteEvaluation(e) ==
  /\ e \in DOMAIN evals
  /\ evals' = Restrict(evals, DOMAIN evals \ {e})
  /\ UNCHANGED <<projects, rows, saves, clones>>

-----------------------------------------------------------------------------
(* Clones                                                                  *)

\* Up to step, the copies of the artifacts of source.
Clone(source, known, copies, step) ==
  [source |-> source, known |-> known, rows |-> copies, step |-> step]

\* Identifiers for the copies of what there is are allocated.
BeginClone(q, p) ==
  /\ q \notin projects \cup DOMAIN clones
  /\ p \in projects
  /\ LET known == {<<a[2], a[3]>> : a \in {b \in DOMAIN rows : b[1] = p}}
     IN clones' = [r \in DOMAIN clones \cup {q} |->
                     IF r = q THEN Clone(p, known, [i \in {} |-> Absent], 1) ELSE clones[r]]
  /\ UNCHANGED <<projects, rows, evals, saves>>

\* The artifacts of one kind, each on requirements that were copied.
CopyKind(q) ==
  /\ q \in DOMAIN clones /\ clones[q].step \in 1..4
  /\ LET c == clones[q]
         k == CloneOrder[c.step]
         found == {n \in Names : <<c.source, k, n>> \in DOMAIN rows}
         row(n) == rows[<<c.source, k, n>>]
         copies == [i \in DOMAIN c.rows \cup {<<k, n>> : n \in found} |->
                      IF i[1] = k /\ i[2] \in found
                      THEN [text |-> row(i[2]).text, hash |-> row(i[2]).text, on |-> row(i[2]).on]
                      ELSE c.rows[i]]
     IN /\ \A n \in found : k \in Answering => <<"requirements", row(n).on>> \in DOMAIN c.rows
        /\ clones' = [clones EXCEPT ![q] = Clone(c.source, c.known, copies, c.step + 1)]
  /\ UNCHANGED <<projects, rows, evals, saves>>

\* The evaluations follow, with the hashes of the copies.
CopyOf(v, c) ==
  [about |-> [k \in Kinds |-> IF <<k, v.about[k]>> \in DOMAIN c.rows THEN v.about[k] ELSE Absent],
   hashes |-> [k \in Kinds |->
                 IF <<k, v.about[k]>> \in DOMAIN c.rows THEN c.rows[<<k, v.about[k]>>].hash
                 ELSE v.hashes[k]],
   derived |-> v.derived, copied |-> TRUE]

\* A proposal or a shape that came later is left out; requirements and scenarios
\* must have been copied, and so must whatever an identifier was allocated for.
CanCopy(v, c) ==
  \A k \in Kinds : v.about[k] # Absent =>
    \/ <<k, v.about[k]>> \in DOMAIN c.rows
    \/ k \in Answering /\ <<k, v.about[k]>> \notin c.known

FinishClone(q) ==
  /\ q \in DOMAIN clones /\ clones[q].step = 5
  /\ LET c == clones[q]
         copies == {<<q, e[2]>> : e \in {d \in DOMAIN evals : d[1] = c.source}}
     IN /\ \A e \in copies : CanCopy(evals[<<c.source, e[2]>>], c)
        /\ projects' = projects \cup {q}
        /\ rows' = [a \in DOMAIN rows \cup {<<q, i[1], i[2]>> : i \in DOMAIN c.rows} |->
                      IF a[1] = q THEN c.rows[<<a[2], a[3]>>] ELSE rows[a]]
        /\ evals' = [e \in DOMAIN evals \cup copies |->
                       IF e[1] = q THEN CopyOf(evals[<<c.source, e[2]>>], c) ELSE evals[e]]
  /\ clones' = Restrict(clones, DOMAIN clones \ {q})
  /\ UNCHANGED saves

\* Requirements came after those were copied, a statement fails: rolled back.
CloneFails(q) ==
  /\ q \in DOMAIN clones
  /\ clones' = Restrict(clones, DOMAIN clones \ {q})
  /\ UNCHANGED <<projects, rows, evals, saves>>

-----------------------------------------------------------------------------

StudioNext ==
  \/ \E p \in Projects : CreateProject(p)
  \/ \E p \in Places : DeleteProject(p)
  \/ \E p \in Places, k \in Kinds, n \in Names, on \in Names \cup {Absent} :
       \E text \in Texts[k] : CreateArtifact(p, k, n, on, text)
  \/ \E a \in Artifacts : DeleteArtifact(a) \/ \E text \in Texts[a[2]] : UpdateArtifact(a, text)
  \/ \E c \in Saves, p \in Places, about \in Abouts : BeginSave(c, p, about)
  \/ \E c \in Saves : ReadArtifact(c) \/ InsertEvaluation(c) \/ SaveFails(c)
  \/ \E e \in Places \X Saves : DeleteEvaluation(e)
  \/ \E q \in Clones, p \in Places : BeginClone(q, p)
  \/ \E q \in Clones : CopyKind(q) \/ FinishClone(q) \/ CloneFails(q)

StudioSpec == StudioInit /\ [][StudioNext]_studioVars

-----------------------------------------------------------------------------
(* Properties                                                              *)

Row == [text : Says, hash : Says, on : Names \cup {Absent}]

\* Partial functions on S with values in R.
StoredIn(f, S, R) == DOMAIN f \subseteq S /\ \A x \in DOMAIN f : f[x] \in R

\* Types, and that what is in a project goes with it.
StudioTypeOK ==
  /\ projects \subseteq Places
  /\ StoredIn(rows, projects \X Kinds \X Names, Row)
  /\ StoredIn(evals, projects \X Saves,
          [about : About, hashes : [Kinds -> Says], copied : BOOLEAN,
           derived : {Absent} \cup [requirements : Says, shape : Says]])
  /\ StoredIn(saves, Saves,
          [project : Places, about : About, hashes : [Kinds -> Says], texts : [Kinds -> Says],
           step : 1..5])
  /\ DOMAIN clones \subseteq Clones \ projects
  /\ \A q \in DOMAIN clones :
       /\ clones[q].source \in Places /\ clones[q].step \in 1..5
       /\ clones[q].known \subseteq Kinds \X Names
       /\ StoredIn(clones[q].rows, Kinds \X Names, Row)

\* The content hash of what evaluation e is about, as _compute_staleness gets it.
HashNow(e, k) ==
  LET n == evals[e].about[k]
  IN IF n = Absent THEN Absent ELSE rows[<<e[1], k, n>>].hash

\* Not is_stale.  The shape counts only if there is one.
Fresh(e) ==
  \A k \in Kinds :
    k # "shape" \/ evals[e].about[k] # Absent => evals[e].hashes[k] = HashNow(e, k)

\* What Studio shows as fresh rests on what the artifacts say: everything an
\* evaluation is about is in its project, and unless it came with a clone, its
\* expectations are those of the requirements and the shape as they are now,
\* though both were read apart while others wrote.  A copied evaluation gets the
\* hashes of the clone and keeps its expectations, and so may be fresh and wrong.
OnlyCopiesMislead ==
  \A e \in DOMAIN evals :
    LET about == evals[e].about
        now(k) == rows[<<e[1], k, about[k]>>].text
    IN /\ \A k \in Kinds : about[k] # Absent => <<e[1], k, about[k]>> \in DOMAIN rows
       /\ about["shape"] # Absent /\ Fresh(e) /\ ~ evals[e].copied =>
            evals[e].derived = [requirements |-> now("requirements"), shape |-> now("shape")]

=============================================================================
