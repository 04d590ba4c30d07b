--------------------------- MODULE TransparencyLog ---------------------------
(***************************************************************************)
(* What the audit log and its checkpoints promise when no entry expires:   *)
(* entries are only appended, each checkpoint is a longer prefix of the    *)
(* log than every earlier one, and only checkpoints are ever published.    *)
(***************************************************************************)
EXTENDS Naturals, Sequences

CONSTANT Entries

VARIABLES
  entries,    \* the log, a sequence without repetitions
  heads,      \* the prefixes that a checkpoint certifies
  published   \* the prefixes that a sink has received

logVars == <<entries, heads, published>>

LogInit == entries = <<>> /\ heads = {} /\ published = {}

AppendEntry(e) ==
  /\ \A k \in 1..Len(entries) : entries[k] # e
  /\ entries' = Append(entries, e)
  /\ UNCHANGED <<heads, published>>

Certify(n) ==
  /\ \A h \in heads : Len(h) < n
  /\ heads' = heads \cup {SubSeq(entries, 1, n)}
  /\ UNCHANGED <<entries, published>>

PublishHead(h) ==
  /\ published' = published \cup {h}
  /\ UNCHANGED <<entries, heads>>

LogNext ==
  \/ \E e \in Entries : AppendEntry(e)
  \/ \E n \in 1..Len(entries) : Certify(n)
  \/ \E h \in heads : PublishHead(h)

LogSpec == LogInit /\ [][LogNext]_logVars

=============================================================================
