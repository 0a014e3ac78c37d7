-------------------------------- MODULE Intake --------------------------------
(* What a vendor uploads: photos, rendered into media_assets, and CSV files,     *)
(* imported row by row into product_variants.  Each is a request that hands the  *)
(* work to a queue: InlineMediaQueue and InlineImportQueue do it in the request's *)
(* own transaction, the worker's functions in one of theirs.                     *)
EXTENDS Integers, FiniteSets, Sequences

CONSTANTS
    Photos,      \* uploads of photos
    Pictures,    \* contents a file may have
    Broken,      \* the pictures that do not render
    Files,       \* import jobs
    Rows,        \* the rows of a file: sku, price, stock, and whether it validates
    Skus,
    Room,        \* products the plan allows
    MaxCrashes

ASSUME IntakeAssumption ==
    /\ Broken \subseteq Pictures
    /\ \A f \in Files : Rows[f] \in Seq([sku : Skus, price : Nat \ {0}, stock : Nat, valid : BOOLEAN])
    /\ {Room, MaxCrashes} \subseteq Nat

VARIABLES
    wiring,      \* which queues the application was given
    upload,      \* media_assets, as far as they are committed
    open,        \* the transaction at work on a photo
    bucket,      \* the photos whose renditions were put
    import,      \* import_jobs, as far as they are committed
    batch,       \* the transaction at work on a file
    shelf,       \* product_variants, price 0 where there is none
    mail,        \* jobs the worker was sent and has not acknowledged
    crashes,
    runs         \* ghost: how often a file was imported

photoVars == <<upload, open, bucket>>
fileVars == <<import, batch, shelf, runs>>
intakeVars == <<wiring, photoVars, fileVars, mail, crashes>>

NoUpload == [status |-> "none"]
NoTxn == [phase |-> "idle"]
Bare == [price |-> 0, stock |-> 0, held |-> 0]

IntakeInit ==
    /\ wiring \in {"inline", "worker"}
    /\ upload = [u \in Photos |-> NoUpload]
    /\ open = [u \in Photos |-> NoTxn]
    /\ bucket = {}
    /\ import = [f \in Files |-> [status |-> "none", ok |-> 0, failed |-> 0]]
    /\ batch = [f \in Files |-> NoTxn]
    /\ shelf = [s \in Skus |-> Bare]
    /\ mail = {} /\ crashes = 0
    /\ runs = [f \in Files |-> 0]

-----------------------------------------------------------------------------
\* upload(): the row is inserted; the queue is told before the request commits.
Upload(u, pic) ==
    /\ upload[u] = NoUpload /\ open[u] = NoTxn
    /\ IF wiring = "inline"
       THEN open' = [open EXCEPT ![u] = [phase |-> "process", pic |-> pic]] /\ UNCHANGED mail
       ELSE /\ open' = [open EXCEPT ![u] = [phase |-> "upload", pic |-> pic]]
            /\ mail' = mail \cup {u}
    /\ UNCHANGED <<wiring, upload, bucket, fileVars, crashes>>

UploadCommits(u) ==
    /\ open[u].phase = "upload"
    /\ upload' = [upload EXCEPT ![u] = [status |-> "processing", pic |-> open[u].pic, from |-> u, sum |-> FALSE]]
    /\ open' = [open EXCEPT ![u] = NoTxn]
    /\ UNCHANGED <<wiring, bucket, fileVars, mail, crashes>>

\* process_media(): the row is locked; one that is ready, or not there, is left alone.
WorkerTakes(u) ==
    /\ u \in mail /\ u \in Photos
    /\ open[u].phase \in {"idle", "upload"}
    /\ IF upload[u].status \in {"none", "ready"}
       THEN mail' = mail \ {u} /\ UNCHANGED open
       ELSE open' = [open EXCEPT ![u] = [phase |-> "process", pic |-> upload[u].pic]] /\ UNCHANGED mail
    /\ UNCHANGED <<wiring, upload, bucket, fileVars, crashes>>

Ready(u) == upload[u].status = "ready"
Original(u, pic) == {w \in Photos \ {u} : Ready(w) /\ upload[w].pic = pic /\ upload[w].sum}

\* The transaction ends: the row and, for the worker, the acknowledgement.
Settles(u, row) ==
    /\ upload' = [upload EXCEPT ![u] = row]
    /\ open' = [open EXCEPT ![u] = NoTxn]
    /\ mail' = mail \ {u}

\* A photo the vendor already has takes over its renditions, without a checksum.
Deduplicates(u) ==
    /\ open[u].phase = "process"
    /\ \E w \in Original(u, open[u].pic) :
         Settles(u, [status |-> "ready", pic |-> open[u].pic, from |-> upload[w].from, sum |-> FALSE])
    /\ UNCHANGED <<wiring, bucket, fileVars, crashes>>

DoesNotRender(u) ==
    /\ open[u].phase = "process"
    /\ Original(u, open[u].pic) = {} /\ open[u].pic \in Broken
    /\ Settles(u, [status |-> "failed", pic |-> open[u].pic, from |-> u, sum |-> FALSE])
    /\ UNCHANGED <<wiring, bucket, fileVars, crashes>>

\* The renditions are put before the row says where they are.
Renders(u) ==
    /\ open[u].phase = "process"
    /\ Original(u, open[u].pic) = {} /\ open[u].pic \notin Broken
    /\ bucket' = bucket \cup {u}
    /\ open' = [open EXCEPT ![u] = [phase |-> "rendered", pic |-> open[u].pic]]
    /\ UNCHANGED <<wiring, upload, fileVars, mail, crashes>>

\* uq_media_checksum
ChecksumFree_dropped(u) == TRUE
ChecksumFree(u) == \A w \in Photos \ {u} : Ready(w) /\ upload[w].sum => upload[w].pic # open[u].pic
Published(u) ==
    /\ open[u].phase = "rendered"
    /\ ChecksumFree(u)
    /\ Settles(u, [status |-> "ready", pic |-> open[u].pic, from |-> u, sum |-> TRUE])
    /\ UNCHANGED <<wiring, bucket, fileVars, crashes>>

\* The same picture was published meanwhile: an error, and arq does not try again.
Refused(u) ==
    /\ open[u].phase = "rendered"
    /\ ~ChecksumFree(u)
    /\ open' = [open EXCEPT ![u] = NoTxn]
    /\ mail' = mail \ {u}
    /\ UNCHANGED <<wiring, upload, bucket, fileVars, crashes>>

-----------------------------------------------------------------------------
\* start_import()
StartImport(f) ==
    /\ import[f].status = "none" /\ batch[f] = NoTxn
    /\ IF wiring = "inline"
       THEN /\ batch' = [batch EXCEPT ![f] = [phase |-> "rows", next |-> 1, ok |-> 0, mine |-> <<>>]]
            /\ UNCHANGED mail
       ELSE batch' = [batch EXCEPT ![f] = [phase |-> "start"]] /\ mail' = mail \cup {f}
    /\ UNCHANGED <<wiring, photoVars, import, shelf, crashes, runs>>

StartCommits(f) ==
    /\ batch[f].phase = "start"
    /\ import' = [import EXCEPT ![f].status = "queued"]
    /\ batch' = [batch EXCEPT ![f] = NoTxn]
    /\ UNCHANGED <<wiring, photoVars, shelf, mail, crashes, runs>>

\* run_import() from the worker: only a queued file, whose row it locks.
Importable(f) == import[f].status = "queued"
WorkerImports(f) ==
    /\ f \in mail /\ f \in Files
    /\ batch[f].phase \in {"idle", "start"}
    /\ IF Importable(f)
       THEN /\ batch' = [batch EXCEPT ![f] = [phase |-> "rows", next |-> 1, ok |-> 0, mine |-> <<>>]]
            /\ UNCHANGED mail
       ELSE mail' = mail \ {f} /\ UNCHANGED batch
    /\ UNCHANGED <<wiring, photoVars, import, shelf, crashes, runs>>

Importing(f) == batch[f].phase = "rows"
RowOf(f) == Rows[f][batch[f].next]
MoreRows(f) == Importing(f) /\ batch[f].next <= Len(Rows[f])
Wrote(f, s) == Importing(f) /\ s \in DOMAIN batch[f].mine
LockedBy(f, s) == {g \in Files \ {f} : Wrote(g, s)}

\* A variant as the transaction sees it.
SeenBy(f, s) == IF Wrote(f, s) THEN batch[f].mine[s] ELSE shelf[s]

\* The row's savepoint is released with what it wrote.
Keeps(f, s, row) ==
    LET b == batch[f] IN
    batch' = [batch EXCEPT ![f] =
        [b EXCEPT !.next = @ + 1, !.ok = @ + 1,
                  !.mine = [t \in DOMAIN @ \cup {s} |-> IF t = s THEN row ELSE @[t]]]]

EnoughFor(v, stock) == stock >= v.held

\* A known sku: the price, and the stock by the difference, not below what is held.
UpdatesRow(f) ==
    LET r == RowOf(f)
        v == SeenBy(f, r.sku) IN
    /\ MoreRows(f) /\ r.valid
    /\ v.price # 0 /\ LockedBy(f, r.sku) = {}
    /\ EnoughFor(v, r.stock)
    /\ Keeps(f, r.sku, [v EXCEPT !.price = r.price, !.stock = r.stock])
    /\ UNCHANGED <<wiring, photoVars, import, shelf, mail, crashes, runs>>

Products(f) == {s \in Skus : SeenBy(f, s).price # 0}

\* A new sku, of a new product if the plan has room.
InsertsRow(f) ==
    LET r == RowOf(f) IN
    /\ MoreRows(f) /\ r.valid
    /\ SeenBy(f, r.sku).price = 0 /\ LockedBy(f, r.sku) = {}
    /\ Cardinality(Products(f)) < Room
    /\ Keeps(f, r.sku, [price |-> r.price, stock |-> r.stock, held |-> 0])
    /\ UNCHANGED <<wiring, photoVars, import, shelf, mail, crashes, runs>>

\* Two files that wait for each other's variants: the database ends one statement.
Deadlocked(f) ==
    \E g \in LockedBy(f, RowOf(f).sku) : MoreRows(g) /\ LockedBy(g, RowOf(g).sku) # {}

Fails(f) ==
    LET r == RowOf(f)
        v == SeenBy(f, r.sku) IN
    \/ ~r.valid
    \/ LockedBy(f, r.sku) # {} /\ Deadlocked(f)
    \/ LockedBy(f, r.sku) = {} /\ v.price # 0 /\ ~EnoughFor(v, r.stock)
    \/ LockedBy(f, r.sku) = {} /\ v.price = 0 /\ Cardinality(Products(f)) >= Room

\* What a failed row leaves: its savepoint takes back the price too.
Undone(f) == batch[f].mine

FailsRow(f) ==
    LET b == batch[f] IN
    /\ MoreRows(f) /\ Fails(f)
    /\ batch' = [batch EXCEPT ![f] = [b EXCEPT !.next = @ + 1, !.mine = Undone(f)]]
    /\ UNCHANGED <<wiring, photoVars, import, shelf, mail, crashes, runs>>

\* A file that is no UTF-8, lacks a column or has too many rows is not begun.
ImportFails(f) ==
    /\ Importing(f) /\ batch[f].next = 1
    /\ import' = [import EXCEPT ![f].status = "failed"]
    /\ batch' = [batch EXCEPT ![f] = NoTxn]
    /\ mail' \in {mail, mail \ {f}}
    /\ UNCHANGED <<wiring, photoVars, shelf, crashes, runs>>

\* The counts, the variants and the status in one commit.
ImportDone(f) ==
    LET b == batch[f] IN
    /\ Importing(f) /\ ~MoreRows(f)
    /\ import' = [import EXCEPT ![f] = [status |-> "done", ok |-> b.ok, failed |-> Len(Rows[f]) - b.ok]]
    /\ shelf' = [s \in Skus |-> SeenBy(f, s)]
    /\ batch' = [batch EXCEPT ![f] = NoTxn]
    /\ runs' = [runs EXCEPT ![f] = @ + 1]
    /\ mail' \in {mail, mail \ {f}}
    /\ UNCHANGED <<wiring, photoVars, crashes>>

\* A checkout reserves a piece; it waits for a variant an import has locked.
HoldsOne(s) ==
    /\ \A f \in Files : ~Wrote(f, s)
    /\ shelf[s].held < shelf[s].stock
    /\ shelf' = [shelf EXCEPT ![s].held = @ + 1]
    /\ UNCHANGED <<wiring, photoVars, import, batch, mail, crashes, runs>>

\* The process stops: the transactions are undone, and arq sends its jobs again.
IntakeCrashes ==
    /\ crashes < MaxCrashes
    /\ crashes' = crashes + 1
    /\ open' = [u \in Photos |-> NoTxn]
    /\ batch' = [f \in Files |-> NoTxn]
    /\ UNCHANGED <<wiring, upload, bucket, import, shelf, mail, runs>>

IntakeNext ==
    \/ \E u \in Photos :
         \/ \E pic \in Pictures : Upload(u, pic)
         \/ UploadCommits(u) \/ WorkerTakes(u) \/ Deduplicates(u) \/ DoesNotRender(u)
         \/ Renders(u) \/ Published(u) \/ Refused(u)
    \/ \E f \in Files :
         \/ StartImport(f) \/ StartCommits(f) \/ WorkerImports(f)
         \/ UpdatesRow(f) \/ InsertsRow(f) \/ FailsRow(f) \/ ImportFails(f) \/ ImportDone(f)
    \/ \E s \in Skus : HoldsOne(s)
    \/ IntakeCrashes

IntakeSpec == IntakeInit /\ [][IntakeNext]_intakeVars

-----------------------------------------------------------------------------
\* The types of the rows, the transactions and the queue.
IntakeTypeOK ==
    /\ wiring \in {"inline", "worker"}
    /\ upload \in [Photos -> {NoUpload} \cup
         [status : {"processing", "ready", "failed"}, pic : Pictures, from : Photos, sum : BOOLEAN]]
    /\ open \in [Photos -> {NoTxn} \cup [phase : {"upload", "process", "rendered"}, pic : Pictures]]
    /\ bucket \subseteq Photos /\ mail \subseteq Photos \cup Files
    /\ \A f \in Files :
         /\ import[f].status \in {"none", "queued", "done", "failed"}
         /\ batch[f].phase \in {"idle", "start", "rows"}
         /\ Importing(f) => batch[f].next \in 1 .. Len(Rows[f]) + 1 /\ batch[f].ok \in 0 .. Len(Rows[f])
    /\ \A s \in Skus : shelf[s] \in [price : Nat, stock : Nat, held : Nat]
    /\ crashes \in 0 .. MaxCrashes

\* A photo that is ready is served from renditions of its own picture that were put,
\* whether it was rendered or took over another's, and one photo owns a picture.
PhotosAreServed ==
    \A u \in Photos : Ready(u) =>
        /\ upload[u].from \in bucket /\ Ready(upload[u].from)
        /\ upload[upload[u].from].pic = upload[u].pic
        /\ \A w \in Photos \ {u} : Ready(w) /\ upload[w].sum /\ upload[u].sum => upload[w].pic # upload[u].pic

\* A variant's price and stock come from the same row of a file that is done: a row
\* that fails half way leaves neither.
RowsAreWhole ==
    \A s \in Skus : shelf[s].price # 0 =>
        \E f \in Files : import[f].status = "done" /\ \E i \in DOMAIN Rows[f] :
            /\ Rows[f][i].sku = s /\ Rows[f][i].valid
            /\ Rows[f][i].price = shelf[s].price /\ Rows[f][i].stock = shelf[s].stock

\* A file is imported once, however often the worker is sent it.
ImportedOnce == \A f \in Files : runs[f] <= 1

\* No import takes away a piece a buyer has reserved.
HeldIsThere == \A s \in Skus : shelf[s].held <= shelf[s].stock

\* What uploads and imports keep in every state (catalog/media.py, imports.py) through
\* crashes and repeated deliveries: rows of their types, photos that are served from
\* renditions that exist, whole rows, one run of a file, and stock for what is held.
IntakeSafe == IntakeTypeOK /\ PhotosAreServed /\ RowsAreWhole /\ ImportedOnce /\ HeldIsThere
=============================================================================
