-------------------------- MODULE CStringContract --------------------------
(***************************************************************************)
(* What package C_String promises (c_string.ads): every call returns in    *)
(* one step, with the value or the exception its declaration names, as     *)
(* long as the caller passes what the types say: a "Terminated C string    *)
(* pointer", or an "Unterminated C char array pointer" with its true size. *)
(* The package keeps no state between calls, so a behaviour is one call.   *)
(***************************************************************************)
EXTENDS CMemory

CONSTANTS SizeLast,     \* Interfaces.C.size_t'Last
          OffsetLast,   \* System.Storage_Elements.Storage_Offset'Last
          IntegerLast   \* Integer'Last

VARIABLES block,   \* the memory the call's Item designates
          call,    \* the call: its operation and its parameters
          status,  \* "running", "returned" or an exception
          number,  \* the result of Length
          text     \* the result of To_String and Index

cvars == <<block, call, status, number, text>>

TerminatedOps == {"Length", "To_String", "Index"}
SizedOps == {"To_String_Sized", "Index_Sized"}
ArrayOps == {"To_C_String", "To_C_Char_Array"}

\* A call; a parameter the operation does not have is 0, and null says that
\* the pointer passed is null.
CallsOf(names, sizes, indexes) ==
  [name : names, size : sizes, index : indexes, null : BOOLEAN]

Calls ==
  CallsOf({"Length", "To_String"} \union ArrayOps, {0}, {0})
    \union CallsOf({"To_String_Sized"}, 0 .. SizeLast, {0})
    \union CallsOf({"Index"}, {0}, 0 .. SizeLast)
    \union CallsOf({"Index_Sized"}, 0 .. SizeLast, 0 .. SizeLast)

\* No object is larger than the address space, which size_t counts.
Blocks == UNION {BlocksOf(n) : n \in 0 .. SizeLast + 1}

\* The caller keeps its side of the types' contract.
Legal(b, c) ==
  \/ c.null
  \/ c.name \in TerminatedOps /\ Terminated(b)
  \/ c.name \in SizedOps /\ \A k \in 0 .. c.size - 1 : k \in DOMAIN b
  \/ c.name \in ArrayOps

Exceptions == {"Constraint_Error", "Null_Termination_Error"}

Value(n, t) == [status |-> "returned", number |-> n, text |-> t]
Raise(e) == [status |-> e, number |-> 0, text |-> <<>>]

\* The first nul can be found by reading from the start.
InReach(b) == FirstNul(b) <= OffsetLast

\* Every index below n can be read.
Offsets(n) == n <= OffsetLast + 1

\* o is the outcome each operation promises for a legal call.  What lies
\* beyond the offsets Ada can express is refused, whatever the size says.
Promised(b, c, o) ==
  IF c.null THEN o = Raise("Constraint_Error") ELSE
  /\ c.name = "Length" =>
       o = IF InReach(b) THEN Value(FirstNul(b), <<>>)
           ELSE Raise("Constraint_Error")
  /\ c.name = "To_String" =>
       o = IF InReach(b) /\ FirstNul(b) <= IntegerLast
           THEN Value(0, Prefix(b, FirstNul(b))) ELSE Raise("Constraint_Error")
  /\ c.name = "To_String_Sized" =>
       o = IF Offsets(c.size) /\ c.size <= IntegerLast
           THEN Value(0, Prefix(b, c.size)) ELSE Raise("Constraint_Error")
  /\ c.name = "Index" =>
       o = IF InReach(b) /\ c.index < FirstNul(b)
           THEN Value(0, <<b[c.index]>>) ELSE Raise("Constraint_Error")
  /\ c.name = "Index_Sized" =>
       o = IF c.index <= OffsetLast /\ c.index < c.size
           THEN Value(0, <<b[c.index]>>) ELSE Raise("Constraint_Error")
  /\ c.name = "To_C_String" =>
       o = IF Terminated(b) THEN Value(0, <<>>)
           ELSE Raise("Null_Termination_Error")
  /\ c.name = "To_C_Char_Array" =>
       o = IF DOMAIN b # {} THEN Value(0, <<>>) ELSE Raise("Constraint_Error")

CInit ==
  /\ block \in Blocks /\ call \in Calls
  /\ status = "running" /\ number = 0 /\ text = <<>>

\* A legal call returns its outcome; of an illegal one nothing is promised.
CReturn ==
  /\ status = "running"
  /\ status' # "running"
  /\ Legal(block, call) =>
       Promised(block, call,
                [status |-> status', number |-> number', text |-> text'])
  /\ UNCHANGED <<block, call>>

CSpec == CInit /\ [][CReturn]_cvars
============================================================================
