----------------------------- MODULE GeneralLedger -----------------------------
(***************************************************************************)
(* GeneralLedgerService: the double-entry journal of one branch.  Amounts  *)
(* are whole cents.  An entry is stored under its idempotency key, which a *)
(* unique index keeps unique, so the table is a function of the keys used. *)
(*                                                                         *)
(* post() and reverse() are one database transaction each.  They look the  *)
(* key up and then insert; when two of them race on one key the unique     *)
(* index lets one insert and fails the other, so that the table changes as *)
(* if they had run one after the other.                                    *)
(***************************************************************************)
EXTENDS Sums

CONSTANTS
  EntryKeys,   \* idempotency keys of journal entries
  Accounts,    \* account codes
  NoEntry

ASSUME JournalAssumption == NoEntry \notin EntryKeys /\ IsFiniteSet(Accounts)

VARIABLE entries   \* tables gl_journal_entries and gl_journal_lines

\* No entry has two lines of one account, so that its lines are an amount for
\* each account: a debit is positive, a credit negative, and without a line
\* the amount is 0.
Lines == [Accounts -> Int]

JournalEntry == [lines : Lines, reverses : EntryKeys \cup {NoEntry},
                 reversedBy : EntryKeys \cup {NoEntry}]

Swapped(lines) == [account \in Accounts |-> -lines[account]]

\* assertBalanced: what post() refuses, it refuses before it touches the tables.
Balanced(lines) ==
  /\ SumOver(Accounts, LAMBDA account : lines[account]) = 0
  /\ \E account \in Accounts : lines[account] # 0

PostedKeys == DOMAIN entries
LedgerEmpty == entries = [key \in {} |-> NoEntry]

\* The table with one more row.
WithEntry(key, entry) ==
  [other \in PostedKeys \cup {key} |-> IF other = key THEN entry ELSE entries[other]]

\* The entries after post(); an entry of the same key is returned unchanged.
Posted(key, lines) ==
  IF key \in PostedKeys THEN entries
  ELSE WithEntry(key, [lines |-> lines, reverses |-> NoEntry, reversedBy |-> NoEntry])

\* The entries after reverse(): nothing happens without an original, or when
\* the reversal's own key is taken.  reversedBy is written and never read.
Reversed(original, key) ==
  IF original \notin PostedKeys \/ key \in PostedKeys THEN entries
  ELSE [WithEntry(key, [lines      |-> Swapped(entries[original].lines),
                        reverses   |-> original,
                        reversedBy |-> NoEntry])
         EXCEPT ![original].reversedBy = key]

\* balance(): debits minus credits, without the account's natural sign.
Balance(account) == SumOver(PostedKeys, LAMBDA key : entries[key].lines[account])

EntriesTypeOK == \A key \in PostedKeys : entries[key] \in JournalEntry
=============================================================================
