----------------------------- MODULE CpmRecords -----------------------------
(***************************************************************************)
(* What a CP/M program may expect of its files: a file is a number of      *)
(* records, an open file has a position, a transfer at the position moves  *)
(* on by one, and random access sets the position first.  Closing a file   *)
(* changes nothing in it.  On a host that refuses a write may fail, or be  *)
(* lost though the program is told it was done, and closing may cut the    *)
(* file.                                                                   *)
(***************************************************************************)
EXTENDS Integers

CONSTANTS
  Names,
  Positions  \* the positions programs ask for

VARIABLES
  records,  \* how many records each file has that exists
  at,       \* the position of each open file
  told,     \* the position function 36 reports: behind the last access
  result,   \* what the last call told the program
  refusing  \* whether the host may refuse to open and to write

cvars == <<records, at, told, result, refusing>>

NoFile(n) == n \notin DOMAIN records
IsOpen(n) == n \in DOMAIN at
Without(f, n) == [m \in DOMAIN f \ {n} |-> f[m]]
With(f, n, x) == [m \in DOMAIN f \cup {n} |-> IF m = n THEN x ELSE f[m]]
Larger(m, n) == IF m > n THEN m ELSE n

Succeeds(r) == result' = [ok |-> TRUE, record |-> r]
Fails == result' = [ok |-> FALSE, record |-> 0]

Init ==
  /\ refusing \in BOOLEAN
  /\ DOMAIN records \subseteq Names /\ records \in [DOMAIN records -> Nat]
  /\ at = <<>> /\ told = <<>>
  /\ result = [ok |-> TRUE, record |-> 0]

\* The program chooses the position p of a file it opens.
Opened(n, p) ==
  /\ Succeeds(0)
  /\ at' = With(at, n, p)
  /\ told' = IF IsOpen(n) THEN told ELSE With(told, n, 0)

Open(n, p) ==
  IF NoFile(n) THEN Fails /\ UNCHANGED <<records, at, told>>
               ELSE Opened(n, p) /\ UNCHANGED records

Make(n, p) ==
  /\ ~ IsOpen(n)
  /\ records' = With(records, n, 0)
  /\ Opened(n, p)

Close(n) ==
  /\ Succeeds(0)
  /\ IsOpen(n)
  /\ at' = Without(at, n) /\ told' = Without(told, n)
  /\ \/ UNCHANGED records
     \/ refusing /\ \E m \in 0 .. records[n] : records' = [records EXCEPT ![n] = m]

\* A program that closes no open file is told so, and one that is refused.
Refused == Fails /\ UNCHANGED <<records, at, told>>

\* A transfer at p, behind which the position is q.
Stands(n, q, t) == at' = [at EXCEPT ![n] = q] /\ told' = [told EXCEPT ![n] = t]

ReadAt(n, p) ==
  /\ IsOpen(n)
  /\ IF p < records[n] THEN Succeeds(p) /\ Stands(n, p + 1, p + 1)
                       ELSE Fails /\ Stands(n, p, p)
  /\ UNCHANGED records

WriteAt(n, p) ==
  /\ Succeeds(p)
  /\ IsOpen(n)
  /\ records' = [records EXCEPT ![n] = Larger(@, p + 1)]
  /\ Stands(n, p + 1, p + 1)

WriteRefused(n, p) ==
  /\ Fails
  /\ IsOpen(n) /\ refusing
  /\ Stands(n, p, p)
  /\ UNCHANGED records

WriteLost(n, p) ==
  /\ Succeeds(p)
  /\ IsOpen(n) /\ refusing
  /\ Stands(n, p + 1, p)
  /\ UNCHANGED records

MayWrite(n, p) == WriteAt(n, p) \/ WriteRefused(n, p) \/ WriteLost(n, p)

Read(n) == IsOpen(n) /\ ReadAt(n, at[n])
Write(n) == IsOpen(n) /\ MayWrite(n, at[n])

Size(n) ==
  /\ IsOpen(n)
  /\ Succeeds(records[n]) /\ Stands(n, records[n], records[n])
  /\ UNCHANGED records

Tell(n) ==
  /\ IsOpen(n)
  /\ Succeeds(told[n]) /\ Stands(n, told[n], told[n])
  /\ UNCHANGED records

Seek(n, p) ==
  /\ IsOpen(n)
  /\ at' = [at EXCEPT ![n] = p]
  /\ UNCHANGED <<records, told, result>>

Delete(n) ==
  /\ Succeeds(0)
  /\ ~ IsOpen(n)
  /\ records' = Without(records, n)
  /\ UNCHANGED <<at, told>>

Rename(m, n) ==
  /\ Succeeds(0)
  /\ ~ IsOpen(m) /\ ~ IsOpen(n)
  /\ records' = IF NoFile(m) \/ m = n THEN records
                ELSE With(Without(records, m), n, records[m])
  /\ UNCHANGED <<at, told>>

Next ==
  /\ UNCHANGED refusing
  /\ \/ Refused
     \/ \E n \in Names :
          \/ Close(n) \/ Read(n) \/ Write(n) \/ Size(n) \/ Tell(n) \/ Delete(n)
          \/ \E p \in Positions : \/ Open(n, p) \/ Make(n, p) \/ Seek(n, p)
                                  \/ ReadAt(n, p) \/ MayWrite(n, p)
          \/ \E m \in Names : Rename(m, n)

Spec == Init /\ [][Next]_cvars
=============================================================================
