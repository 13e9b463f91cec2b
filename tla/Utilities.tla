------------------------------- MODULE Utilities -------------------------------
(***************************************************************************)
(* The pure functions of src/common that compute something, each compared  *)
(* with a definition of what it is for.  A behaviour is one call: its      *)
(* input is chosen at the start and its output computed in one step.       *)
(***************************************************************************)
EXTENDS Integers, SequencesExt

CONSTANTS
  MaxLength,        \* bound: the length of lists and of all strings over Letters
  MaxLong,          \* bound: the length of strings of characters that all differ
  MaxTokens,        \* bound: the length of lists of push tokens
  Letters,          \* the characters of short strings, blanks apart
  Modulus           \* 2^32 in the code: what a hash is a remainder of

Blank == 0
ASSUME LetterAssumption == Letters \subseteq 1..26
ASSUME ModulusAssumption == Modulus \in Nat \ {0} /\ Modulus % 2 = 0
ASSUME BoundAssumption == MaxLength \in Nat /\ MaxLong \in Nat /\ MaxTokens \in Nat

VARIABLES
  input,            \* [fn, ...]: the function and its arguments
  output            \* [fn, ...]: the same, once there is a result

vars == <<input, output>>

-----------------------------------------------------------------------------
(* Strings are sequences of numbers; trim drops the blanks around. *)

Inked(s) == {k \in DOMAIN s : s[k] # Blank}
Trim(s) == IF Inked(s) = {} THEN <<>> ELSE SubSeq(s, Min(Inked(s)), Max(Inked(s)))

Strings == SeqOf(Letters \cup {Blank}, MaxLength)
Distinct == {[k \in 1..n |-> k] : n \in 0..MaxLong}
LongStrings == Distinct \cup {<<Blank>> \o s : s \in Distinct} \cup {s \o <<Blank>> : s \in Distinct}

-----------------------------------------------------------------------------
(* EncryptionDecryption: a transposition.  The text is written into a grid  *)
(* row by row, padded with blanks, and read column by column.               *)

CeilSqrt(l) == Min({b \in 0..l : b * b >= l})
FloorSqrt(l) == Max({a \in 0..l : a * a <= l})

(* Mutant: the grid is not made larger when the text does not fit. *)
RowsAsRooted(l) == FloorSqrt(l)
Rows(l) ==
  LET b == CeilSqrt(l)
      a == FloorSqrt(l)
  IN  IF b * a < l THEN a + 1 ELSE a

Encryption(s) ==
  LET b == CeilSqrt(Len(s))
      a == Rows(Len(s))
      Cell(i, j) == IF i * b + j < Len(s) THEN s[i * b + j + 1] ELSE Blank
  IN  [k \in 1..(a * b) |-> Cell((k - 1) % a, (k - 1) \div a)]

(* The grid is found again from the length of the encrypted text alone; a    *)
(* cell past its end would stay empty.                                       *)
Decryption(e) ==
  LET b == CeilSqrt(Len(e))
      a == FloorSqrt(Len(e))
      Position(k) == ((k - 1) % b) * a + ((k - 1) \div b)
      Cell(p) == IF p < Len(e) THEN <<e[p + 1]>> ELSE <<>>
  IN  Trim(FlattenSeq([k \in 1..(a * b) |-> Cell(Position(k))]))

-----------------------------------------------------------------------------
(* HashCodeGenerator: 31 * hash + character, cut to a signed machine word.  *)

Signed(x) == ((x + (Modulus \div 2)) % Modulus) - (Modulus \div 2)
Code(char) == IF char = Blank THEN 32 ELSE 96 + char
(* Mutant: the shift is taken for a product with 32, and nothing subtracted. *)
ShiftOnly(hash, char) == Signed(32 * hash + Code(char))
Step(hash, char) == Signed(Signed(32 * hash) - hash + Code(char))
HashCode(s) ==
  IF s = <<>> THEN 0
  ELSE IF Trim(s) = <<>> THEN 1
  ELSE FoldLeft(Step, 0, Trim(s))

-----------------------------------------------------------------------------
(* ConvertToBatches *)

(* Where batches begin.  Mutant: only full ones do. *)
StartsOfFull(length, size) == [k \in 1..(length \div size) |-> (k - 1) * size]
Starts(length, size) == [k \in 1..((length + size - 1) \div size) |-> (k - 1) * size]
ConvertToBatches(arr, size) ==
  LET starts == Starts(Len(arr), size)
  IN  [k \in DOMAIN starts |-> SubSeq(arr, starts[k] + 1, Min({starts[k] + size, Len(arr)}))]

-----------------------------------------------------------------------------
(* RepoPagination.of.  A page or limit that is not given, or is not truthy,  *)
(* such as "0", is the number 0 here.                                        *)

OrElse(value, default) == IF value # 0 THEN value ELSE default
(* Mutant: pages are counted from 0, as the description of the field says.  *)
SkipFromZero(page, limit) == OrElse(page, 1) * OrElse(limit, 10)
Skip(page, limit) == (OrElse(page, 1) - 1) * OrElse(limit, 10)
(* What a query that skips and limits so finds of a list. *)
PageOf(list, page, limit) ==
  SubSeq(list, Skip(page, limit) + 1, Min({Skip(page, limit) + OrElse(limit, 10), Len(list)}))

-----------------------------------------------------------------------------
(* PushTokenSplitter.  An element of the list has the mark of its kind, or   *)
(* none, and a value; the value 1 of IS_SAND_BOX is true, all others false.  *)
(* An empty element, such as a comma at the end leaves, has neither.         *)

Marks == {"IS_SAND_BOX", "APNS", "APN", "VOIP", "FCM", "none"}
Element == [mark : Marks, value : 0..2]
Slot(mark) == CASE mark = "IS_SAND_BOX" -> "isSandBox"
                [] mark \in {"APNS", "APN"} -> "apns"
                [] mark = "VOIP" -> "voip"
                [] mark \in {"FCM", "none"} -> "fcm"
NoTokens == [apns |-> 0, voip |-> 0, fcm |-> 0, isSandBox |-> 0]
Value(element) ==
  IF element.mark = "IS_SAND_BOX" THEN IF element.value = 1 THEN 1 ELSE 0 ELSE element.value
(* Mutant: a kind that is there is not replaced. *)
PutFirst(group, element) ==
  [group EXCEPT ![Slot(element.mark)] = IF @ = 0 THEN Value(element) ELSE @]
Put(group, element) == [group EXCEPT ![Slot(element.mark)] = Value(element)]
Split(list) == FoldLeft(Put, NoTokens, list)

-----------------------------------------------------------------------------

Init ==
  /\ \/ \E s \in Strings \cup LongStrings :
          \/ input = [fn |-> "encryption", s |-> s]
          \/ input = [fn |-> "hashCode", s |-> s]
     \/ \E length \in 0..MaxLength, size \in 1..MaxLength + 1 :
          \/ input = [fn |-> "batches", length |-> length, size |-> size]
          \/ input = [fn |-> "pages", length |-> length, limit |-> size]
     \/ \E list \in SeqOf(Element, MaxTokens) : input = [fn |-> "split", list |-> list]
  /\ output = [fn |-> "none"]

Answers(fn, result) ==
  /\ output.fn = "none"
  /\ input.fn = fn
  /\ output' = [fn |-> fn, result |-> result]
  /\ UNCHANGED input

Encrypt == Answers("encryption", Decryption(Encryption(input.s)))
Hash == Answers("hashCode", HashCode(input.s))
Batch == Answers("batches", ConvertToBatches([k \in 1..input.length |-> k], input.size))
(* The pages 0 to one past the last. *)
Paginate ==
  Answers("pages", [page \in 0..input.length + 1 |->
                      PageOf([k \in 1..input.length |-> k], page, input.limit)])
SplitTokens == Answers("split", Split(input.list))

Next == Encrypt \/ Hash \/ Batch \/ Paginate \/ SplitTokens
Spec == Init /\ [][Next]_vars

-----------------------------------------------------------------------------
(* Properties. *)

(* What is encrypted is decrypted again, but for the blanks around it: the   *)
(* grid's sides are recovered from the padded length, whatever the length.   *)
DecryptsWhatWasEncrypted == output.fn = "encryption" => output.result = Trim(input.s)

(* A hash is the sum of the characters times powers of 31, as a signed word. *)
PowerOf31[n \in Nat] == IF n = 0 THEN 1 ELSE (31 * PowerOf31[n - 1]) % Modulus
Polynomial(s) ==
  FoldLeft(+, 0, [k \in DOMAIN s |-> (Code(s[k]) * PowerOf31[Len(s) - k]) % Modulus])
HashIsPolynomial ==
  output.fn = "hashCode" /\ Trim(input.s) # <<>> =>
    output.result = Signed(Polynomial(Trim(input.s)))

(* Batches put together are the list, and only the last may not be full. *)
BatchesKeepTheList ==
  output.fn = "batches" =>
    /\ FlattenSeq(output.result) = [k \in 1..input.length |-> k]
    /\ \A k \in DOMAIN output.result :
         /\ Len(output.result[k]) \in 1..input.size
         /\ k < Len(output.result) => Len(output.result[k]) = input.size

(* The pages of a list, from the first one, are the list; page 0, and one    *)
(* that is not given, are the first.                                         *)
PagesTileTheList ==
  output.fn = "pages" =>
    /\ FlattenSeq([page \in 1..input.length + 1 |-> output.result[page]])
         = [k \in 1..input.length |-> k]
    /\ output.result[0] = output.result[1]

(* Of each kind the last token of the list is kept, whatever other kinds    *)
(* stand between; an empty element counts as an empty FCM token.            *)
LastOfItsKind ==
  output.fn = "split" =>
    \A slot \in DOMAIN NoTokens :
      LET of == {k \in DOMAIN input.list : Slot(input.list[k].mark) = slot} IN
      output.result[slot] = IF of = {} THEN 0 ELSE Value(input.list[Max(of)])
=============================================================================
