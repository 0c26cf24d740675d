------------------------- MODULE ChangeDetectProofs -------------------------
(***************************************************************************)
(* Change detection for every set of files, every size, every number of    *)
(* writes: types, the PARANOID guarantee under everything users may do,    *)
(* and the plain guarantee when datestamps and names are left alone.       *)
(***************************************************************************)
EXTENDS ChangeDetect, TLAPS

\* A new entry has its type when the file was listed and some content read.
LEMMA MakeEntryType ==
    ASSUME TypeOK, NEW f \in File, seen[f] # NotListed,
           NEW c \in Version \X Size, NEW x \in BOOLEAN, MakeEntry(f, c, x)
    PROVE  /\ draft' \in [File -> Entry \cup {NoEntry}]
           /\ draft'[f] # NoEntry
           /\ draft'[f].content = c /\ draft'[f].size = c[2]
           /\ draft'[f].date = seen[f].date
           /\ \A g \in File : g # f => draft'[g] = draft[g]
<1>1. seen[f] \in Meta
  BY DEF TypeOK
<1>2. c[2] \in Size
  OBVIOUS
<1> DEFINE e == [content |-> c, size |-> c[2], date |-> seen[f].date,
                 prot |-> seen[f].prot, xhash |-> x]
<1>3. e \in Entry
  BY <1>1, <1>2 DEF Meta, Entry
<1>4. e # NoEntry
  <2>1. e.size = c[2] /\ c[2] # 0
    BY <1>2 DEF Size
  <2>2. NoEntry.size = 0
    BY DEF NoEntry
  <2> QED  BY <2>1, <2>2
<1>5. draft' = [draft EXCEPT ![f] = e]
  BY DEF MakeEntry
<1>6. draft \in [File -> Entry \cup {NoEntry}]
  BY DEF TypeOK
<1>7. draft'[f] = e
  BY <1>5, <1>6
<1>8. draft' \in [File -> Entry \cup {NoEntry}]
  BY <1>3, <1>5, <1>6
<1>9. \A g \in File : g # f => draft'[g] = draft[g]
  BY <1>5, <1>6
<1> HIDE DEF e
<1>10. e.content = c /\ e.size = c[2] /\ e.date = seen[f].date
  BY DEF e
<1> QED  BY <1>4, <1>7, <1>8, <1>9, <1>10

\* The content read from a file, up to a size.
LEMMA ContentType ==
    ASSUME TypeOK, NEW f \in File, NEW n \in Size
    PROVE  /\ <<src[f].v, n>> \in Version \X Size
           /\ <<src[f].v, n>>[1] = src[f].v
           /\ <<src[f].v, n>>[2] = n
<1>1. src[f] \in Meta
  BY DEF TypeOK
<1> QED  BY <1>1 DEF Meta

\* The previous entry of an unchanged file has a content.
LEMMA IndexType ==
    ASSUME TypeOK, NEW f \in File, index[f] # NoEntry
    PROVE  /\ index[f] \in Entry
           /\ index[f].content \in Version \X Size
<1>1. index[f] \in Entry
  BY DEF TypeOK
<1> QED  BY <1>1 DEF Entry

USE SizeAssumption, WritesAssumption

\* Initially the types hold, and no path is followed.
LEMMA InitType == Init => TypeOK /\ Followed
<1> SUFFICES ASSUME Init PROVE TypeOK /\ Followed
  OBVIOUS
<1>1. src \in [File -> Meta]
  BY DEF Init
<1>2. 0 \in Version /\ now \in Version
  BY DEF Init, Version
<1>3. NoEntries \in [File -> Entry \cup {NoEntry}]
  BY DEF NoEntries
<1>4. seen \in [File -> Meta \cup {NotListed}]
  BY DEF Init
<1>5. TypeOK
  BY <1>1, <1>2, <1>3, <1>4 DEF Init, TypeOK, Phase
<1>6. Followed
  BY DEF Init, Followed, NoEntries
<1> QED  BY <1>5, <1>6

\* A listed file's record is not the one that stands for "not listed".
LEMMA MetaListed == ASSUME NEW m \in Meta PROVE m # NotListed
<1>1. m.size # 0
  BY DEF Meta, Size
<1>2. NotListed.size = 0
  BY DEF NotListed
<1> QED  BY <1>1, <1>2

\* What a change by a user keeps: types, and the history of every path.
LEMMA ChangedKeeps ==
    ASSUME TypeOK, Followed, NEW f \in File, NEW m \in Meta, Changed(f, m),
           now' \in Version
    PROVE  /\ TypeOK' /\ Followed'
           /\ \A g \in File : held[g] \subseteq held'[g]
           /\ src' = [src EXCEPT ![f] = m]
<1>1. src' = [src EXCEPT ![f] = m]
  BY DEF Changed
<1>2. held' = [held EXCEPT ![f] = Holds(f, m.v)]
  BY DEF Changed
<1>3. m.v \in Version
  BY DEF Meta
<1>4. Holds(f, m.v) \in SUBSET Version
  BY <1>3 DEF Holds, TypeOK
<1>5. src' \in [File -> Meta] /\ held' \in [File -> SUBSET Version]
  BY <1>1, <1>2, <1>4 DEF TypeOK
<1>6. TypeOK'
  BY <1>5 DEF TypeOK, Changed, runVars, scanVars
<1>7. Followed'
  <2>1. \A g \in File :
          IF seen'[g] = NotListed THEN held'[g] = {} ELSE src'[g].v \in held'[g]
    BY <1>1, <1>2 DEF TypeOK, Followed, Changed, scanVars, Holds
  <2> QED  BY <2>1 DEF Followed, Changed, scanVars
<1>8. \A g \in File : held[g] \subseteq held'[g]
  <2>1. seen[f] = NotListed \/ held[f] \subseteq held'[f]
    BY <1>2 DEF Holds, TypeOK
  <2>2. seen[f] = NotListed => held[f] = {}
    BY DEF Followed
  <2> QED  BY <2>1, <2>2, <1>2 DEF TypeOK
<1> QED  BY <1>1, <1>6, <1>7, <1>8

\* What any step of a user keeps: types, histories, and the command's variables.
LEMMA UserKeeps ==
    ASSUME TypeOK, Followed, UserStep
    PROVE  /\ TypeOK' /\ Followed'
           /\ \A g \in File : held[g] \subseteq held'[g]
           /\ UNCHANGED <<phase, runVars, draft, scanVars, cur, size>>
<1> DEFINE Goal == /\ TypeOK' /\ Followed'
                   /\ \A g \in File : held[g] \subseteq held'[g]
                   /\ UNCHANGED <<phase, runVars, draft, scanVars, cur, size>>
<1>1. ASSUME NEW f \in File, Write(f) PROVE Goal
  <2>1. now' \in Version /\ now + 1 \in Version
    BY <1>1 DEF Write, TypeOK, Version
  <2>2. PICK s \in Size, d \in Version :
           Changed(f, [src[f] EXCEPT !.v = now + 1, !.size = s, !.date = d, !.bit = FALSE])
    BY <1>1 DEF Write
  <2>3. [src[f] EXCEPT !.v = now + 1, !.size = s, !.date = d, !.bit = FALSE] \in Meta
    <3>1. src[f] \in Meta
      BY DEF TypeOK
    <3> QED  BY <2>1, <3>1 DEF Meta
  <2>4. TypeOK' /\ Followed' /\ \A g \in File : held[g] \subseteq held'[g]
    BY <2>1, <2>2, <2>3, ChangedKeeps
  <2> QED  BY <2>2, <2>4 DEF Changed
<1>2. ASSUME NEW f \in File, Protect(f) PROVE Goal
  <2>1. now' \in Version
    BY <1>2 DEF Protect, TypeOK
  <2>2. PICK p \in Prot, b \in BOOLEAN :
           Changed(f, [src[f] EXCEPT !.prot = p, !.bit = b])
    BY <1>2 DEF Protect
  <2>3. [src[f] EXCEPT !.prot = p, !.bit = b] \in Meta
    BY DEF TypeOK, Meta
  <2>4. TypeOK' /\ Followed' /\ \A g \in File : held[g] \subseteq held'[g]
    BY <2>1, <2>2, <2>3, ChangedKeeps
  <2> QED  BY <2>2, <2>4 DEF Changed
<1>3. ASSUME NEW f \in File, NEW g \in File, Swap(f, g) PROVE Goal
  <2>1. src[f] \in Meta /\ src[g] \in Meta /\ f # g
    BY <1>3 DEF TypeOK, Swap
  <2>2. src' = [src EXCEPT ![f] = src[g], ![g] = src[f]]
    BY <1>3 DEF Swap
  <2>3. held' = [held EXCEPT ![f] = Holds(f, src[g].v), ![g] = Holds(g, src[f].v)]
    BY <1>3 DEF Swap
  <2>4. src[f].v \in Version /\ src[g].v \in Version
    BY <2>1 DEF Meta
  <2>5. Holds(f, src[g].v) \in SUBSET Version /\ Holds(g, src[f].v) \in SUBSET Version
    BY <2>4 DEF Holds, TypeOK
  <2>6. src' \in [File -> Meta] /\ held' \in [File -> SUBSET Version]
    BY <2>1, <2>2, <2>3, <2>5 DEF TypeOK
  <2>7. TypeOK'
    BY <1>3, <2>6 DEF TypeOK, Swap, runVars, scanVars
  <2>8. \A h \in File :
          IF seen'[h] = NotListed THEN held'[h] = {} ELSE src'[h].v \in held'[h]
    BY <1>3, <2>1, <2>2, <2>3 DEF TypeOK, Followed, Swap, scanVars, Holds
  <2>9. Followed'
    BY <1>3, <2>8 DEF Followed, Swap, scanVars
  <2>10. \A h \in File : held[h] \subseteq held'[h]
    BY <2>1, <2>3 DEF TypeOK, Followed, Holds
  <2> QED  BY <1>3, <2>7, <2>9, <2>10 DEF Swap
<1> QED  BY <1>1, <1>2, <1>3 DEF UserStep

\* Every step keeps the types and the histories (snapshot_on_entry, scan_dir
\* and the users of the volume).
LEMMA TypeStep ==
    ASSUME TypeOK, Followed, [Next]_vars
    PROVE  TypeOK' /\ Followed'
<1> USE DEF TypeOK, Followed, Phase
<1>1. CASE UserStep
  BY <1>1, UserKeeps
<1>2. CASE Begin
  <2>1. NoEntries \in [File -> Entry \cup {NoEntry}]
    BY DEF NoEntries
  <2>2. TypeOK'
    BY <1>2, <2>1 DEF Begin, sourceVars
  <2> QED  BY <1>2, <2>2 DEF Begin, sourceVars
<1>3. CASE ListFiles
  <2>1. PICK batch \in (SUBSET unlisted) \ {{}} :
          /\ listed' = batch
          /\ unlisted' = unlisted \ batch
          /\ seen' = [f \in File |-> IF f \in batch THEN src[f] ELSE seen[f]]
          /\ held' = [f \in File |-> IF f \in batch THEN {src[f].v} ELSE held[f]]
    BY <1>3 DEF ListFiles
  <2>2. \A f \in File : src[f].v \in Version /\ src[f] # NotListed
    BY MetaListed DEF Meta
  <2>3. TypeOK'
    BY <1>3, <2>1, <2>2 DEF ListFiles, sourceVars, runVars
  <2>4. Followed'
    BY <1>3, <2>1, <2>2 DEF ListFiles, sourceVars, runVars
  <2> QED  BY <2>3, <2>4
<1>4. ASSUME NEW f \in File, VisitUnchanged(f) PROVE TypeOK' /\ Followed'
  <2>1. index[f].content \in Version \X Size /\ FALSE \in BOOLEAN
    BY <1>4, IndexType DEF VisitUnchanged, Unchanged
  <2>2. /\ draft' \in [File -> Entry \cup {NoEntry}]
        /\ \A g \in File : g # f => draft'[g] = draft[g]
    BY <1>4, <2>1, MakeEntryType DEF VisitUnchanged
  <2>3. TypeOK'
    BY <1>4, <2>2 DEF VisitUnchanged, sourceVars, runVars, MarkNext
  <2> QED  BY <1>4, <2>2, <2>3 DEF VisitUnchanged, sourceVars, runVars, MarkNext
<1>5. ASSUME NEW f \in File, Visit(f) PROVE TypeOK' /\ Followed'
  <2>1. src[f].size \in Size
    BY DEF Meta
  <2>2. TypeOK'
    BY <1>5, <2>1 DEF Visit, sourceVars, runVars
  <2> QED  BY <1>5, <2>2 DEF Visit, sourceVars, runVars
<1>15. ASSUME NEW f \in File, VisitFails(f) PROVE TypeOK' /\ Followed'
  <2>1. TypeOK'
    BY <1>15 DEF VisitFails, sourceVars, runVars
  <2>2. /\ UNCHANGED <<src, phase, draft, unlisted, seen, cur, held>>
        /\ listed' \subseteq listed
    BY <1>15 DEF VisitFails, sourceVars
  <2> QED  BY <2>1, <2>2
<1>6. CASE ReadLarge
  <2>1. PICK n \in Size : MakeEntry(cur, <<src[cur].v, n>>, TRUE)
    BY <1>6 DEF ReadLarge, Meta
  <2>2. /\ draft' \in [File -> Entry \cup {NoEntry}]
        /\ \A g \in File : g # cur => draft'[g] = draft[g]
    <3>1. cur \in File
      BY <1>6 DEF ReadLarge, TypeOK
    <3>2. <<src[cur].v, n>> \in Version \X Size
      BY <3>1, ContentType
    <3>3. seen[cur] # NotListed /\ TRUE \in BOOLEAN
      BY <1>6 DEF ReadLarge, Followed
    <3> QED  BY <2>1, <3>1, <3>2, <3>3, MakeEntryType
  <2>3. TypeOK'
    BY <1>6, <2>2 DEF ReadLarge, sourceVars, runVars, scanVars, MarkNext
  <2> QED  BY <1>6, <2>2, <2>3 DEF ReadLarge, sourceVars, runVars, scanVars, MarkNext
<1>7. CASE ReadConfirmed
  <2>1. index[cur].content \in Version \X Size /\ TRUE \in BOOLEAN
    BY <1>7, IndexType DEF ReadConfirmed, Confirmed, Unchanged
  <2>2. /\ draft' \in [File -> Entry \cup {NoEntry}]
        /\ \A g \in File : g # cur => draft'[g] = draft[g]
    BY <1>7, <2>1, MakeEntryType DEF ReadConfirmed
  <2>3. TypeOK'
    BY <1>7, <2>2 DEF ReadConfirmed, sourceVars, runVars, scanVars, MarkNext
  <2> QED  BY <1>7, <2>2, <2>3 DEF ReadConfirmed, sourceVars, runVars, scanVars, MarkNext
<1>8. CASE ReadSmall
  <2>1. MakeEntry(cur, <<src[cur].v, size>>, TRUE)
    BY <1>8 DEF ReadSmall, Bytes
  <2>2. /\ draft' \in [File -> Entry \cup {NoEntry}]
        /\ \A g \in File : g # cur => draft'[g] = draft[g]
    <3>1. <<src[cur].v, size>> \in Version \X Size
      BY <1>8, ContentType DEF ReadSmall
    <3>2. TRUE \in BOOLEAN
      OBVIOUS
    <3> QED  BY <1>8, <2>1, <3>1, <3>2, MakeEntryType DEF ReadSmall
  <2>3. TypeOK'
    BY <1>8, <2>2 DEF ReadSmall, sourceVars, runVars, scanVars
  <2> QED  BY <1>8, <2>2, <2>3 DEF ReadSmall, sourceVars, runVars, scanVars
<1>9. CASE FileFails
  <2>1. TypeOK'
    BY <1>9 DEF FileFails, sourceVars, runVars, scanVars
  <2> QED  BY <1>9, <2>1 DEF FileFails, sourceVars, runVars, scanVars
<1>10. CASE Mark
  <2>1. seen[cur] \in Meta
    BY <1>10 DEF Mark
  <2>2. [src[cur] EXCEPT !.prot = seen[cur].prot, !.bit = TRUE] \in Meta
    BY <1>10, <2>1 DEF Mark, Meta
  <2>3. src' \in [File -> Meta]
    BY <1>10, <2>2 DEF Mark
  <2>4. \A f \in File : src'[f].v = src[f].v
    BY <1>10, <2>1 DEF Mark, Meta
  <2>5. TypeOK'
    BY <1>10, <2>3 DEF Mark, runVars, scanVars
  <2> QED  BY <1>10, <2>4, <2>5 DEF Mark, runVars, scanVars
<1>11. ASSUME Leave, last' \in [File -> Entry \cup {NoEntry}] PROVE TypeOK' /\ Followed'
  <2>1. NoEntries \in [File -> Entry \cup {NoEntry}]
    BY DEF NoEntries
  <2>2. TypeOK'
    BY <1>11, <2>1 DEF Leave, sourceVars
  <2> QED  BY <1>11, <2>2 DEF Leave, sourceVars, NoEntries
<1>12. CASE Commit
  BY <1>11, <1>12 DEF Commit
<1>13. CASE Abandon
  BY <1>11, <1>13 DEF Abandon
<1>14. CASE UNCHANGED vars
  BY <1>14 DEF vars, sourceVars, runVars, scanVars
<1> QED  BY <1>1, <1>2, <1>3, <1>4, <1>5, <1>6, <1>7, <1>8, <1>9, <1>10,
            <1>12, <1>13, <1>14, <1>15 DEF Next, RunStep

\* Every variable keeps its type (TypeOK), whatever users do.
THEOREM TypeCorrect == Spec => []TypeOK
<1>1. TypeOK /\ Followed /\ [Next]_vars => TypeOK' /\ Followed'
  BY TypeStep
<1> QED  BY InitType, <1>1, PTL DEF Spec

\* What reading a file, or taking over its previous entry, adds to a draft.
LEMMA ReadOutcome ==
    ASSUME TypeOK, Followed, ReadLarge \/ ReadConfirmed \/ ReadSmall
    PROVE  /\ cur \in File /\ seen[cur] # NotListed
           /\ draft'[cur] # NoEntry
           /\ draft'[cur].content[1] = src[cur].v
           /\ draft'[cur].size = draft'[cur].content[2]
           /\ draft'[cur].date = seen[cur].date
           /\ \A g \in File : g # cur => draft'[g] = draft[g]
           /\ UNCHANGED <<src, now, runVars, scanVars, held>>
           /\ phase' # "idle"
<1>1. cur \in File /\ seen[cur] # NotListed /\ (phase = "read" => size \in Size)
  BY DEF TypeOK, Followed, ReadLarge, ReadConfirmed, ReadSmall
<1>2. ASSUME NEW n \in Size, MakeEntry(cur, <<src[cur].v, n>>, TRUE)
      PROVE  /\ draft'[cur] # NoEntry
             /\ draft'[cur].content[1] = src[cur].v
             /\ draft'[cur].size = draft'[cur].content[2]
             /\ draft'[cur].date = seen[cur].date
             /\ \A g \in File : g # cur => draft'[g] = draft[g]
  <2> DEFINE c == <<src[cur].v, n>>
  <2>1. c \in Version \X Size /\ c[1] = src[cur].v /\ TRUE \in BOOLEAN
    BY <1>1, ContentType
  <2>2. MakeEntry(cur, c, TRUE)
    BY <1>2
  <2> HIDE DEF c
  <2>3. /\ draft'[cur] # NoEntry
        /\ draft'[cur].content = c /\ draft'[cur].size = c[2]
        /\ draft'[cur].date = seen[cur].date
        /\ \A g \in File : g # cur => draft'[g] = draft[g]
    BY <1>1, <2>1, <2>2, MakeEntryType
  <2> QED  BY <2>1, <2>3
<1>3. CASE ReadLarge
  <2>1. PICK n \in Size : MakeEntry(cur, <<src[cur].v, n>>, TRUE)
    BY <1>1, <1>3 DEF ReadLarge, TypeOK, Meta
  <2>2. UNCHANGED <<src, now, runVars, scanVars, held>> /\ phase' # "idle"
    BY <1>3 DEF ReadLarge, MarkNext, sourceVars
  <2> QED  BY <1>1, <1>2, <2>1, <2>2
<1>4. CASE ReadConfirmed
  <2>1. MakeEntry(cur, <<src[cur].v, size>>, TRUE) /\ size \in Size
    BY <1>1, <1>4 DEF ReadConfirmed, Confirmed, Bytes
  <2>2. UNCHANGED <<src, now, runVars, scanVars, held>> /\ phase' # "idle"
    BY <1>4 DEF ReadConfirmed, MarkNext, sourceVars
  <2> QED  BY <1>1, <1>2, <2>1, <2>2
<1>5. CASE ReadSmall
  <2>1. MakeEntry(cur, <<src[cur].v, size>>, TRUE) /\ size \in Size
    BY <1>1, <1>5 DEF ReadSmall, Bytes
  <2>2. UNCHANGED <<src, now, runVars, scanVars, held>> /\ phase' # "idle"
    BY <1>5 DEF ReadSmall, sourceVars
  <2> QED  BY <1>1, <1>2, <2>1, <2>2
<1> QED  BY <1>3, <1>4, <1>5

\* What taking over the previous entry of an unchanged file adds to a draft.
LEMMA ReuseOutcome ==
    ASSUME TypeOK, Followed, NEW f \in File, VisitUnchanged(f)
    PROVE  /\ seen[f] # NotListed
           /\ index[f] # NoEntry /\ draft'[f] # NoEntry
           /\ draft'[f].content = index[f].content
           /\ draft'[f].size = index[f].content[2]
           /\ draft'[f].date = seen[f].date
           /\ index[f].date = seen[f].date
           /\ index[f].size = src[f].size
           /\ ~paranoid \/ src[f].size > Chunk
           /\ \A g \in File : g # f => draft'[g] = draft[g]
           /\ UNCHANGED <<src, now, runVars, seen, held>>
<1>1. seen[f] # NotListed /\ index[f] # NoEntry
  BY DEF VisitUnchanged, Followed, Unchanged
<1>2. index[f].content \in Version \X Size /\ FALSE \in BOOLEAN
  BY <1>1, IndexType
<1>3. MakeEntry(f, index[f].content, FALSE)
  BY DEF VisitUnchanged
<1> QED  BY <1>1, <1>2, <1>3, MakeEntryType DEF VisitUnchanged, Unchanged, sourceVars

\* Every step keeps ParanoidInv: under PARANOID a small file is always read.
LEMMA ParanoidStep ==
    ASSUME TypeOK, ParanoidInv, [Next]_vars
    PROVE  ParanoidInv'
<1>1. Followed /\ Followed' /\ TypeOK'
  BY TypeStep DEF ParanoidInv
<1> DEFINE Goal == /\ \A f \in File : Sized(last[f])' /\ Sized(index[f])' /\ Sized(draft[f])'
                   /\ NothingStaleParanoid'
<1> USE DEF ParanoidInv, NothingStaleParanoid, Sized
<1>2. CASE UserStep
  BY <1>1, <1>2, UserKeeps DEF runVars
<1>3. CASE Begin
  BY <1>1, <1>3 DEF Begin, Followed, NoEntries
<1>4. CASE ListFiles
  <2>1. PICK batch \in (SUBSET unlisted) \ {{}} :
          held' = [f \in File |-> IF f \in batch THEN {src[f].v} ELSE held[f]]
    BY <1>4 DEF ListFiles
  <2>2. \A f \in batch : draft[f] = NoEntry
    BY <1>1, <2>1 DEF Followed, TypeOK
  <2> QED  BY <1>1, <1>4, <2>1, <2>2 DEF ListFiles, runVars
<1>5. ASSUME NEW f \in File, VisitUnchanged(f) PROVE Goal
  <2>1. /\ draft'[f] # NoEntry /\ index[f] # NoEntry
        /\ draft'[f].content = index[f].content
        /\ draft'[f].size = index[f].content[2]
        /\ index[f].size = src[f].size
        /\ ~paranoid \/ src[f].size > Chunk
        /\ \A g \in File : g # f => draft'[g] = draft[g]
        /\ UNCHANGED <<last, index, paranoid, held>>
    BY <1>1, <1>5, ReuseOutcome DEF runVars
  <2>2. src[f].size \in Int /\ Chunk \in Int
    BY DEF TypeOK, Meta, Size
  <2>3. paranoid => ~(draft'[f].size <= Chunk)
    BY <2>1, <2>2
  <2> QED  BY <2>1, <2>3
<1>6. CASE ReadLarge \/ ReadConfirmed \/ ReadSmall
  <2>1. /\ draft'[cur] # NoEntry /\ cur \in File
        /\ draft'[cur].content[1] = src[cur].v
        /\ draft'[cur].size = draft'[cur].content[2]
        /\ \A g \in File : g # cur => draft'[g] = draft[g]
        /\ UNCHANGED <<last, index, paranoid, held>>
        /\ seen[cur] # NotListed
    BY <1>1, <1>6, ReadOutcome DEF runVars
  <2>2. src[cur].v \in held[cur]
    BY <1>1, <2>1 DEF Followed
  <2> QED  BY <1>1, <2>1, <2>2
<1>7. CASE (\E f \in File : Visit(f) \/ VisitFails(f)) \/ FileFails \/ Mark
  BY <1>1, <1>7 DEF Visit, VisitFails, FileFails, Mark, runVars
<1>8. CASE Commit \/ Abandon
  BY <1>1, <1>8 DEF Commit, Abandon, Leave, NoEntries
<1>9. CASE UNCHANGED vars
  BY <1>1, <1>9 DEF vars, runVars
<1> QED  BY <1>1, <1>2, <1>3, <1>4, <1>5, <1>6, <1>7, <1>8, <1>9 DEF Next, RunStep

\* ParanoidInv holds before the first snapshot.
LEMMA ParanoidInit == Init => ParanoidInv
BY InitType DEF Init, ParanoidInv, NothingStaleParanoid, Sized, NoEntries

\* PARANOID never records old content for a file of at most one chunk
\* (NothingStaleParanoid), whatever is done to dates, names and bits.
THEOREM ParanoidIsSafe == Spec => []NothingStaleParanoid
<1>1. TypeOK /\ ParanoidInv /\ [Next]_vars => TypeOK' /\ ParanoidInv'
  BY TypeStep, ParanoidStep DEF ParanoidInv
<1>2. ParanoidInv => NothingStaleParanoid
  BY DEF ParanoidInv
<1> QED  BY InitType, ParanoidInit, <1>1, <1>2, PTL DEF Spec

\* HonestInv holds before the first snapshot.
LEMMA HonestInit == Init => HonestInv
<1> SUFFICES ASSUME Init PROVE HonestInv
  OBVIOUS
<1>1. Followed
  BY InitType
<1>2. \A f \in File : src[f].v = 0 /\ src[f].date = 0 /\ seen[f] = NotListed
  BY DEF Init
<1>3. now = 0
  BY DEF Init
<1>4. \A f \in File : last[f] = NoEntry /\ index[f] = NoEntry /\ draft[f] = NoEntry
  BY DEF Init, NoEntries
<1> QED  BY <1>1, <1>2, <1>3, <1>4 DEF HonestInv, Dated, NothingStale

\* The numbers that HonestInv compares.
LEMMA Numbers ==
    ASSUME TypeOK, NEW f \in File
    PROVE  /\ src[f] \in Meta /\ src[f].v \in Int /\ src[f].date \in Int /\ now \in Int
           /\ seen[f] # NotListed => seen[f] \in Meta /\ seen[f].v \in Int
           /\ \A e \in {last[f], index[f], draft[f]} :
                 e # NoEntry => e.date \in Int /\ e.content[1] \in Int
<1>1. Version \subseteq Int
  BY DEF Version
<1>2. \A e \in Entry : e.date \in Version /\ e.content[1] \in Version
  BY DEF Entry
<1>3. \A m \in Meta : m.v \in Version /\ m.date \in Version
  BY DEF Meta
<1>4. /\ src[f] \in Meta /\ now \in Int
      /\ seen[f] # NotListed => seen[f] \in Meta
  BY <1>1 DEF TypeOK
<1>5. \A e \in {last[f], index[f], draft[f]} : e # NoEntry => e \in Entry
  BY DEF TypeOK
<1> QED  BY <1>1, <1>2, <1>3, <1>4, <1>5

\* A step that moves src and now forward and adds to the histories only.
LEMMA UserHonest ==
    ASSUME TypeOK, HonestInv, UserStep, Tricks \subseteq {"bit", "live"}
    PROVE  HonestInv'
<1>1. /\ Followed' /\ TypeOK'
      /\ \A g \in File : held[g] \subseteq held'[g]
      /\ UNCHANGED <<phase, runVars, draft, scanVars, cur, size>>
  BY UserKeeps DEF HonestInv
<1> DEFINE Forward ==
        /\ now <= now'
        /\ \A g \in File : /\ src'[g].v = src'[g].date /\ src'[g].v <= now'
                           /\ src[g].v <= src'[g].v
<1>2. Forward
  <2>1. ASSUME NEW f \in File, Write(f) PROVE Forward
    <3>1. PICK s \in Size :
             src' = [src EXCEPT ![f] = [src[f] EXCEPT !.v = now + 1, !.size = s,
                                        !.date = now + 1, !.bit = FALSE]]
      BY <2>1 DEF Write, Changed
    <3>2. now' = now + 1
      BY <2>1 DEF Write
    <3>3. src[f] \in Meta
      BY DEF TypeOK
    <3>4. src'[f].v = now + 1 /\ src'[f].date = now + 1
      BY <3>1, <3>3 DEF TypeOK, Meta
    <3>5. \A g \in File : g # f => src'[g] = src[g]
      BY <3>1 DEF TypeOK
    <3>6. \A g \in File : src[g].v = src[g].date /\ src[g].v <= now /\ src[g].v \in Int
      BY Numbers DEF HonestInv
    <3>7. now \in Int
      BY DEF TypeOK, Version
    <3> QED  BY <3>2, <3>4, <3>5, <3>6, <3>7
  <2>2. ASSUME NEW f \in File, Protect(f) PROVE Forward
    <3>1. PICK p \in Prot, b \in BOOLEAN :
             src' = [src EXCEPT ![f] = [src[f] EXCEPT !.prot = p, !.bit = b]]
      BY <2>2 DEF Protect, Changed
    <3>2. now' = now /\ now \in Int
      BY <2>2 DEF Protect, TypeOK, Version
    <3>3. src[f] \in Meta
      BY DEF TypeOK
    <3>4. \A g \in File : src'[g].v = src[g].v /\ src'[g].date = src[g].date
      BY <3>1, <3>3 DEF TypeOK, Meta
    <3>5. \A g \in File : src[g].v = src[g].date /\ src[g].v <= now /\ src[g].v \in Int
      BY Numbers DEF HonestInv
    <3> QED  BY <3>2, <3>4, <3>5
  <2> QED  BY <2>1, <2>2 DEF UserStep, Swap
<1>3. \A f \in File : /\ src[f].v \in Int /\ src'[f].v \in Int
                      /\ seen[f] # NotListed => seen[f].v \in Int
  BY <1>1, Numbers DEF TypeOK, Meta, Version
<1>4. \A f \in File : \A e \in {last[f], index[f], draft[f]} :
         e # NoEntry => e.date \in Int /\ e.content[1] \in Int
  BY Numbers
<1>5. \A f \in File : /\ src[f].v <= now
                      /\ Dated(f, last[f]) /\ Dated(f, index[f]) /\ Dated(f, draft[f])
  BY DEF HonestInv
<1>6. \A f \in File : Dated(f, last[f])' /\ Dated(f, index[f])' /\ Dated(f, draft[f])'
  BY <1>1, <1>2, <1>3, <1>4, <1>5 DEF Dated, runVars
<1>7. \A f \in File : seen[f] # NotListed =>
          /\ seen[f].v = seen[f].date /\ seen[f].v <= src'[f].v
          /\ seen[f].v \in held'[f]
          /\ index[f] # NoEntry => index[f].content[1] <= seen[f].v
  BY <1>1, <1>2, <1>3 DEF HonestInv
<1>8. NothingStale'
  BY <1>1 DEF HonestInv, NothingStale
<1> QED  BY <1>1, <1>2, <1>6, <1>7, <1>8 DEF HonestInv, scanVars, runVars

\* Every step keeps HonestInv when each write changes the datestamp and files
\* keep their names.
LEMMA HonestStep ==
    ASSUME TypeOK, HonestInv, [Next]_vars, Tricks \subseteq {"bit", "live"}
    PROVE  HonestInv'
<1>1. Followed /\ Followed' /\ TypeOK'
  BY TypeStep DEF HonestInv
<1> USE DEF HonestInv, Dated, NothingStale
<1>2. CASE UserStep
  BY <1>2, UserHonest
<1>3. CASE Begin
  BY <1>1, <1>3 DEF Begin, Followed, NoEntries, sourceVars
<1>4. CASE ListFiles
  <2>1. PICK batch \in (SUBSET unlisted) \ {{}} :
          /\ seen' = [f \in File |-> IF f \in batch THEN src[f] ELSE seen[f]]
          /\ held' = [f \in File |-> IF f \in batch THEN {src[f].v} ELSE held[f]]
    BY <1>4 DEF ListFiles
  <2>2. \A f \in batch : draft[f] = NoEntry
    BY <1>1, <2>1 DEF Followed, TypeOK
  <2>3. \A f \in File : src[f].v \in Int
    BY Numbers
  <2> QED  BY <1>1, <1>4, <2>1, <2>2, <2>3 DEF ListFiles, runVars, sourceVars
<1>5. ASSUME NEW f \in File, VisitUnchanged(f) PROVE HonestInv'
  <2>1. /\ seen[f] # NotListed
        /\ draft'[f] # NoEntry /\ index[f] # NoEntry
        /\ draft'[f].content = index[f].content
        /\ draft'[f].date = seen[f].date
        /\ index[f].date = seen[f].date
        /\ \A g \in File : g # f => draft'[g] = draft[g]
        /\ UNCHANGED <<src, now, last, index, seen, held>>
    BY <1>1, <1>5, ReuseOutcome DEF runVars
  <2>2. index[f].content[1] \in Int /\ seen[f].v \in Int
    BY <2>1, Numbers
  <2>3. index[f].content[1] = seen[f].v
    BY <2>1, <2>2
  <2>4. Dated(f, draft[f])' /\ draft'[f].content[1] \in held'[f]
    BY <2>1, <2>3
  <2> QED  BY <1>1, <2>1, <2>4
<1>6. CASE ReadLarge \/ ReadConfirmed \/ ReadSmall
  <2>1. /\ draft'[cur] # NoEntry /\ cur \in File
        /\ draft'[cur].content[1] = src[cur].v
        /\ draft'[cur].date = seen[cur].date
        /\ \A g \in File : g # cur => draft'[g] = draft[g]
        /\ UNCHANGED <<src, now, last, index, seen, held>>
        /\ seen[cur] # NotListed
    BY <1>1, <1>6, ReadOutcome DEF runVars, scanVars
  <2>2. src[cur].v \in held[cur]
    BY <1>1, <2>1 DEF Followed
  <2>3. src[cur].v \in Int
    BY <2>1, Numbers
  <2>4. /\ draft'[cur].date <= src'[cur].v
        /\ draft'[cur].content[1] = src'[cur].v /\ src'[cur].v <= src'[cur].v
        /\ draft'[cur].content[1] \in held'[cur]
    BY <2>1, <2>2, <2>3
  <2>5. \A g \in File : Dated(g, draft[g])'
    BY <2>1, <2>4
  <2>6. NothingStale'
    BY <2>1, <2>4
  <2> QED  BY <1>1, <2>1, <2>5, <2>6
<1>7. CASE (\E f \in File : Visit(f) \/ VisitFails(f)) \/ FileFails
  BY <1>1, <1>7 DEF Visit, VisitFails, FileFails, runVars, sourceVars, scanVars
<1>8. CASE Mark
  <2>1. cur \in File /\ src[cur] \in Meta
    BY <1>8 DEF Mark, TypeOK
  <2>2. \A f \in File : src'[f].v = src[f].v /\ src'[f].date = src[f].date
    BY <1>8, <2>1 DEF Mark, TypeOK, Meta
  <2> QED  BY <1>1, <1>8, <2>2 DEF Mark, runVars, scanVars
<1>9. CASE Commit \/ Abandon
  BY <1>1, <1>9 DEF Commit, Abandon, Leave, NoEntries, sourceVars
<1>10. CASE UNCHANGED vars
  BY <1>1, <1>10 DEF vars, runVars, sourceVars, scanVars
<1> QED  BY <1>2, <1>3, <1>4, <1>5, <1>6, <1>7, <1>8, <1>9, <1>10 DEF Next, RunStep

\* No snapshot records old content for any file (NothingStale) as long as
\* every write changes the datestamp and files keep their names, also when
\* others set archive bits and everything happens while a snapshot runs.
THEOREM HonestIsSafe ==
    ASSUME Tricks \subseteq {"bit", "live"}
    PROVE  Spec => []NothingStale
<1>1. TypeOK /\ HonestInv /\ [Next]_vars => TypeOK' /\ HonestInv'
  BY TypeStep, HonestStep DEF HonestInv
<1>2. HonestInv => NothingStale
  BY DEF HonestInv
<1> QED  BY InitType, HonestInit, <1>1, <1>2, PTL DEF Spec
=============================================================================
