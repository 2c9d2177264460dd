----------------------------- MODULE FrotzText -----------------------------
(***************************************************************************)
(* Text (text.c).  A text is a row of words of three Z-characters of five  *)
(* bits, which shift between alphabets, stand for abbreviations or spell   *)
(* out a ZSCII character; words of the dictionary are such texts cut to    *)
(* six or nine Z-characters.  Characters are numbers, Unicode outside and  *)
(* ZSCII in memory.  Then the dictionary and what is done with it: looking *)
(* up a word, splitting a line into tokens, completing the last word of a  *)
(* line.  An address in the dictionary is the number of an entry; 0 is     *)
(* none.                                                                   *)
(***************************************************************************)
EXTENDS FrotzObjects, FrotzMath

CONSTANTS Names,          \* the encoded names of the objects
          TextWords,      \* words that are encoded
          TextCodes,      \* rows of Z-characters that are decoded
          TextLines,      \* lines of ZSCII that are split into words
          TokenMax,       \* places in the buffer for tokens
          Leftovers,      \* letters that earlier words leave behind
          LowerCase       \* pairs of letters

VARIABLES story, txWord, txCode, txLine, txParse,
          txDicts      \* dictionaries: separators, entries (encoded), whether they are sorted
dictVars == <<story, txWord, txCode, txLine, txParse, txDicts>>

Resolution == IF V3 THEN 2 ELSE 3
NewLine == 13
Space == 32
Question == 63
\* The clicks of a mouse are above all characters.
Clicks == <<252, 253, 254>>
Latin1 == <<228, 246, 252, 196, 214, 220, 223, 187, 171, 235, 239, 255, 203, 207, 225, 233, 237, 243, 250, 253, 193, 201, 205, 211,
            218, 221, 224, 232, 236, 242, 249, 192, 200, 204, 210, 217, 226, 234, 238, 244, 251, 194, 202, 206, 212, 219, 229, 197,
            248, 216, 227, 241, 245, 195, 209, 213, 230, 198, 231, 199, 254, 240, 222, 208, 163, 339, 338, 161, 191>>
\* The characters above 9A are those of the story's own table or of the standard one.
Extra == IF story.unicode # <<>> THEN story.unicode ELSE Latin1
FromZsciiPast(c) == \* the first of the extra characters forgotten
  CASE c \in Range(Clicks) -> -c
    [] c > 155 /\ c \notin Range(Clicks) -> IF c - 154 \in DOMAIN Extra /\ Extra[c - 154] >= 32 THEN Extra[c - 154] ELSE Question
    [] OTHER -> c
FromZscii(c) ==
  CASE c \in Range(Clicks) -> -c
    [] c >= 155 /\ c \notin Range(Clicks) -> IF c - 154 \in DOMAIN Extra /\ Extra[c - 154] >= 32 THEN Extra[c - 154] ELSE Question
    [] OTHER -> c
UnicodeToZscii(c) ==
  IF c < 160 THEN c
  ELSE IF \E i \in DOMAIN Extra : Extra[i] = c THEN 154 + (CHOOSE i \in DOMAIN Extra : Extra[i] = c /\ \A j \in 1 .. i - 1 : Extra[j] # c) ELSE 0
ToZscii(c) == CASE -c \in Range(Clicks) -> -c
                [] c = 0 -> 0
                [] OTHER -> IF UnicodeToZscii(c) = 0 THEN Question ELSE UnicodeToZscii(c)

Marks == <<46, 44, 33, 63, 95, 35, 39, 34, 47, 92>>
Digits == [k \in 1 .. 10 |-> 47 + k]
Alphabet2 == IF version = 1 THEN <<32>> \o Digits \o Marks \o <<60, 45, 58, 40, 41>> ELSE <<32, 94>> \o Digits \o Marks \o <<45, 58, 40, 41>>
Alphabet(set, index) ==
  CASE story.alphabet # <<>> -> FromZscii(story.alphabet[26 * set + index + 1])
    [] story.alphabet = <<>> /\ set = 0 -> 97 + index
    [] story.alphabet = <<>> /\ set = 1 -> 65 + index
    [] OTHER -> Alphabet2[index + 1]

(***************************************************************************)
(* encode_text.  It reads ten letters and goes on behind the end of the    *)
(* word; what is left over is cut.                                         *)
(***************************************************************************)
\* load_string: so many letters, and zeros behind a shorter word.
LoadString(zscii) == [k \in 1 .. 10 |-> IF k <= 3 * Resolution /\ k <= Len(zscii) THEN FromZscii(zscii[k]) ELSE 0]
Places(c) == {p \in (0 .. 2) \X (0 .. 25) : Alphabet(p[1], p[2]) = c}
ZCharsSwapped(c, padding) == \* the two halves of a ZSCII character the other way round
  LET all == Places(c)
      place == CHOOSE p \in all : \A q \in all : 26 * p[1] + p[2] <= 26 * q[1] + q[2]
      shift == (IF version <= 2 THEN 1 ELSE 3) + place[1]
  IN CASE c = 0 -> <<padding>>
       [] c # 0 /\ all = {} -> <<5, 6, ToZscii(c) % 32, ToZscii(c) \div 32>>
       [] OTHER -> (IF place[1] = 0 THEN <<>> ELSE <<shift>>) \o <<place[2] + 6>>
ZChars(c, padding) ==
  LET all == Places(c)
      place == CHOOSE p \in all : \A q \in all : 26 * p[1] + p[2] <= 26 * q[1] + q[2]
      shift == (IF version <= 2 THEN 1 ELSE 3) + place[1]
  IN CASE c = 0 -> <<padding>>
       [] c # 0 /\ all = {} -> <<5, 6, ToZscii(c) \div 32, ToZscii(c) % 32>>
       [] OTHER -> (IF place[1] = 0 THEN <<>> ELSE <<shift>>) \o <<place[2] + 6>>
Again == <<97, 103, 97, 105, 110, 0, 0, 0, 0, 0>>
Examine == <<101, 120, 97, 109, 105, 110, 101, 0, 0, 0>>
Wait == <<119, 97, 105, 116, 0, 0, 0, 0, 0, 0>>
Expanded(letters, padding) ==
  IF ~story.expand \/ padding # 5 \/ letters[2] # 0 THEN letters
  ELSE CASE letters[1] = 103 -> Again [] letters[1] = 120 -> Examine [] letters[1] = 122 -> Wait [] OTHER -> letters
PackedWords(z) == [k \in 1 .. Len(z) \div 3 |-> (IF 3 * k = Len(z) THEN 32768 ELSE 0) + 1024 * z[3 * k - 2] + 32 * z[3 * k - 1] + z[3 * k]]
Encode(letters, padding) ==
  LET all == FoldLeft(LAMBDA z, c : IF Len(z) < 3 * Resolution THEN z \o ZChars(c, padding) ELSE z, <<>>, Expanded(letters, padding))
  IN PackedWords(SubSeq(all, 1, 3 * Resolution))

(***************************************************************************)
(* decode_text.                                                            *)
(***************************************************************************)
\* The Z-characters of the words up to the one with the highest bit set.
Unpacked(code) ==
  LET last == CHOOSE k \in DOMAIN code : code[k] >= 32768 /\ \A j \in 1 .. k - 1 : code[j] < 32768
  IN FoldLeft(LAMBDA z, w : z \o <<(w \div 1024) % 32, (w \div 32) % 32, w % 32>>, <<>>, SubSeq(code, 1, last))
Start == [out |-> <<>>, shift |-> 0, lock |-> 0, status |-> "normal", prev |-> 0]
\* The Z-characters 2 and 3 shift one letter, 4 and 5 all up to version 2.
ShiftToLocks(d, c) == \* and 2 and 3 as well
  LET shift == (d.lock + (c % 2) + 1) % 3
  IN [d EXCEPT !.shift = shift, !.lock = IF version <= 2 /\ c >= 2 THEN shift ELSE @, !.prev = c]
ShiftTo(d, c) ==
  LET shift == (d.lock + (c % 2) + 1) % 3
  IN [d EXCEPT !.shift = shift, !.lock = IF version <= 2 /\ c >= 4 THEN shift ELSE @, !.prev = c]
RECURSIVE DecodeStep(_, _), DecodeChars(_)
DecodeStep(d, c) ==
  LET Shown(s) == [d EXCEPT !.out = @ \o s, !.shift = d.lock, !.status = "normal", !.prev = c]
      Awaits(s) == [d EXCEPT !.status = s, !.shift = d.lock, !.prev = c]
      breaks == IF version = 1 THEN c = 1 ELSE d.shift = 2 /\ c = 7
  IN CASE d.status = "abbreviation" -> [d EXCEPT !.out = @ \o DecodeChars(Unpacked(story.abbreviations[32 * (d.prev - 1) + c])),
                                                 !.status = "normal", !.prev = c]
       [] d.status = "high" -> [d EXCEPT !.status = "low", !.prev = c]
       [] d.status = "low" -> [d EXCEPT !.out = @ \o <<FromZscii((32 * d.prev + c) % 256)>>, !.status = "normal", !.prev = c]
       [] d.status = "normal" ->
          CASE d.shift = 2 /\ c = 6 -> Awaits("high")
            [] breaks -> Shown(<<NewLine>>)
            [] c >= 6 /\ ~breaks /\ ~(d.shift = 2 /\ c = 6) -> Shown(<<Alphabet(d.shift, c - 6)>>)
            [] c = 0 -> Shown(<<Space>>)
            [] (c = 1 /\ version >= 2) \/ (c \in {2, 3} /\ version >= 3) -> Awaits("abbreviation")
            [] OTHER -> ShiftTo(d, c)
DecodeChars(z) == FoldLeft(DecodeStep, Start, z).out
Decode(code) == DecodeChars(Unpacked(code))

\* An object shows its name, or its number when it has an empty one.
EmptyName == 38053
ObjectHash == <<111, 98, 106, 101, 99, 116, 35>>
RECURSIVE WordsFrom(_, _)
WordsFrom(m, a) == <<LowWord(m, a)>> \o IF LowWord(m, a) >= 32768 THEN <<>> ELSE WordsFrom(m, a + 2)
PrintObjectPlain(m, obj) == \* an empty name shown as it is
  IF m[ObjectName(m, obj)] = 0 THEN <<>> ELSE Decode(WordsFrom(m, ObjectName(m, obj) + 1))
PrintObject(m, obj) ==
  LET addr == ObjectName(m, obj)
  IN CASE m[addr] = 0 -> <<>>
       [] m[addr] # 0 /\ LowWord(m, addr + 1) = EmptyName -> ObjectHash \o PrintNum(obj)
       [] OTHER -> Decode(WordsFrom(m, addr + 1))
\* What can be shown (1) and typed as well (3).
CheckUnicode(c) == CASE c \in 32 .. 126 -> 3 [] c = 160 -> 1 [] c >= 161 -> IF UnicodeToZscii(c) # 0 THEN 3 ELSE 1 [] OTHER -> 0

\* unicode_tolower: its tables, as what they do to the blocks of letters.
ToLowerPlain(c) == \* without the letters that stand out of line
  CASE c \in (65 .. 90) \cup ((192 .. 222) \ {215}) \cup ((913 .. 939) \ {930}) \cup (1040 .. 1071) -> c + 32
    [] c \in 1025 .. 1039 -> c + 80
    [] c \in (256 .. 311) \cup (330 .. 375) /\ c % 2 = 0 -> c + 1
    [] c \in (313 .. 328) \cup (376 .. 382) /\ c % 2 = 1 -> c + 1
    [] OTHER -> c
ToLower(c) ==
  CASE c \in (65 .. 90) \cup ((192 .. 222) \ {215}) \cup ((913 .. 939) \ {930}) \cup (1040 .. 1071) -> c + 32
    [] c \in 1025 .. 1039 -> c + 80
    [] c = 304 -> 105 [] c = 376 -> 255
    [] c \in (256 .. 311) \cup (330 .. 375) /\ c # 304 /\ c % 2 = 0 -> c + 1
    [] c \in (313 .. 328) \cup (377 .. 382) /\ c % 2 = 1 -> c + 1
    [] c = 902 -> 940 [] c \in 904 .. 906 -> c + 37 [] c = 908 -> 972 [] c \in {910, 911} -> c + 63
    [] OTHER -> c

\* A character that check_unicode says can be shown and typed comes back from
\* ZSCII as itself, whichever table the story has (z_check_unicode,
\* translate_to_zscii, translate_from_zscii).
CheckedComesBack ==
  \A w \in {txWord} : \A k \in DOMAIN w : CheckUnicode(w[k]) = 3 => FromZscii(ToZscii(w[k])) = w[k]

\* Whatever happens to the objects their names stay: those of the layout, or the
\* number where the name is empty (print_object, object_name).
NamesStay ==
  \A obj \in Objects :
    PrintObject(mem, obj) = CASE Names[obj] = <<>> -> <<>>
                              [] Names[obj] = <<EmptyName>> -> ObjectHash \o PrintNum(obj)
                              [] OTHER -> Decode(Names[obj])

(***************************************************************************)
(* lookup_text: a search by halves, or one after the other when the number *)
(* of entries is written as a negative one.                                *)
(***************************************************************************)
RECURSIVE After(_, _)
AfterHead(code, entry) == Head(code) > Head(entry)   \* the first word only
After(code, entry) == IF Head(code) # Head(entry) THEN Head(code) > Head(entry) ELSE After(Tail(code), Tail(entry))
RECURSIVE Search(_, _, _, _)
Search(dict, code, lower, upper) ==
  LET number == IF dict.sorted THEN (lower + upper) \div 2 ELSE lower
      entry == dict.entries[number + 1]
  IN CASE lower > upper -> [found |-> 0, lower |-> lower, upper |-> upper]
       [] lower <= upper /\ code = entry -> [found |-> number + 1, lower |-> lower, upper |-> upper]
       [] OTHER -> IF dict.sorted /\ ~After(code, entry) THEN Search(dict, code, lower, number - 1)
                   ELSE Search(dict, code, number + 1, upper)
\* What the end of a search means: a word is found, or (padded for completion)
\* the first that is greater or the last that is less.
Outcome(s, padding, dict) ==
  LET number == IF padding = 0 THEN s.lower ELSE s.upper
  IN CASE s.found # 0 -> s.found
       [] s.found = 0 /\ (padding = 5 \/ number \in {-1, Len(dict.entries)}) -> 0
       [] OTHER -> number + 1
Lookup(letters, padding, dict) ==
  Outcome(Search(dict, Encode(letters, padding), 0, Len(dict.entries) - 1), padding, dict)

(***************************************************************************)
(* The buffer for tokens: how many it holds, how many there are, and for   *)
(* each the entry, the length and where in the text it starts.             *)
(***************************************************************************)
TokenAt(length, from, parse, entry, flag) ==
  LET start == from + (IF version >= 5 THEN 1 ELSE 0)
  IN CASE parse.count >= TokenMax -> parse
       [] parse.count < TokenMax /\ (entry # 0 \/ ~flag) ->
            [parse EXCEPT !.count = @ + 1, !.slots[parse.count + 1] = <<entry, length % 256, start % 256>>]
       [] OTHER -> [parse EXCEPT !.count = @ + 1]
TokeniseTextAll(line, length, from, parse, dict, flag) == \* unknown words are written too
  TokenAt(length, from, parse, Lookup(LoadString(SubSeq(line, from, from + length - 1)), 5, dict), FALSE)
TokeniseText(line, length, from, parse, dict, flag) ==
  TokenAt(length, from, parse, Lookup(LoadString(SubSeq(line, from, from + length - 1)), 5, dict), flag)
\* addr1 runs over the line and the zero behind it, addr2 is where a word began.
RECURSIVE TokeniseFrom(_, _, _, _, _, _)
TokeniseFrom(line, addr1, addr2, parse, dict, flag) ==
  LET c == IF addr1 > Len(line) THEN 0 ELSE line[addr1]
      separator == c \in dict.separators
      ends == separator \/ c \in {Space, 0}
      word == IF ends /\ addr2 # 0 THEN TokeniseText(line, addr1 - addr2, addr2, parse, dict, flag) ELSE parse
      both == IF separator THEN TokeniseText(line, 1, addr1, word, dict, flag) ELSE word
      begin == CASE ends -> 0 [] ~ends /\ addr2 = 0 -> addr1 [] OTHER -> addr2
  IN IF c = 0 THEN both ELSE TokeniseFrom(line, addr1 + 1, begin, both, dict, flag)
TokeniseLine(line, parse, dict, flag) == TokeniseFrom(line, 1, 0, [parse EXCEPT !.count = 0], dict, flag)

(***************************************************************************)
(* completion: the last word of the line, up to nine letters of it, is put *)
(* where the words before it stood, and the first and the last entry that  *)
(* may go on from it are looked up.                                        *)
(***************************************************************************)
LastWord(line) == FoldLeft(LAMBDA w, c : IF c = Space THEN <<>> ELSE IF Len(w) < 9 THEN Append(w, c) ELSE w, <<>>, line)
OverOpen(word, left) == \* without the zero behind the word
  [k \in 1 .. 10 |-> IF k <= Len(word) THEN word[k] ELSE IF k \in DOMAIN left THEN left[k] ELSE 0]
Over(word, left) == [k \in 1 .. 10 |-> CASE k <= Len(word) -> word[k]
                                         [] k = Len(word) + 1 -> 0
                                         [] OTHER -> IF k \in DOMAIN left THEN left[k] ELSE 0]
RECURSIVE Common(_, _)
Common(a, b) == IF a = <<>> \/ b = <<>> \/ Head(a) # Head(b) THEN <<>> ELSE <<Head(a)>> \o Common(Tail(a), Tail(b))
From(s, n) == SubSeq(s, n + 1, Len(s))
\* What the entries from min to max add to the word.
Added(word, min, max, dict) ==
  LET first == From(Decode(dict.entries[min]), Len(word))
      last == From(Decode(dict.entries[max]), Len(word))
  IN IF min = 0 \/ max = 0 \/ min > max THEN <<2, <<>>>>
     ELSE <<IF min = max THEN 0 ELSE 1, IF min = max THEN first ELSE Common(first, last)>>
Completion(line, left, dict) ==
  LET word == LastWord(line)
  IN Added(word, Lookup(Over(word, left), 0, dict), Lookup(Over(word, left), 31, dict), dict)

\* A story may scan a line again with a dictionary of its own (z_tokenise).
EmptyParse == [count |-> 0, slots |-> [k \in 1 .. TokenMax |-> <<0, 0, 0>>], scans |-> <<>>]
ZTokenise ==
  /\ \E dict \in txDicts, flag \in BOOLEAN : txParse' = [TokeniseLine(txLine, txParse, dict, flag) EXCEPT !.scans = Append(@, <<dict, flag>>)]
  /\ Len(txParse.scans) < 2
  /\ UNCHANGED <<story, txWord, txCode, txLine, txDicts>>

(***************************************************************************)
(* What is wanted.                                                         *)
(***************************************************************************)
\* How much room the letters of a word take, and how many fit.
Takes(c) == LET all == Places(c) IN CASE all = {} -> 4 [] (\E p \in all : p[1] = 0) -> 1 [] OTHER -> 2
Fits(word) == FoldLeft(LAMBDA f, c : LET t == Takes(c) IN IF f[2] + t <= 3 * Resolution THEN <<f[1] + 1, f[2] + t>> ELSE <<f[1], 99>>,
                       <<0, 0>>, word)[1]
\* A word that was encoded is read back, as far as its letters fit into six or
\* nine Z-characters; a letter that is cut leaves nothing behind. Characters the
\* story has no code for turn into question marks, and g, x and z alone stand
\* for again, examine and wait (encode_text, decode_text).
WordsAreReadBack ==
  txWord = <<>> \/
  LET letters == [k \in 1 .. 10 |-> IF k <= Len(txWord) THEN txWord[k] ELSE 0]
      word == SelectSeq(Expanded(letters, 5), LAMBDA c : c # 0)
  IN Decode(Encode(letters, 5)) = [k \in 1 .. Fits(word) |-> FromZscii(ToZscii(word[k]))]

\* Text reads the same with an abbreviation as with what it stands for, wherever
\* it is between letters; and up to version 2 locking an alphabet is shifting
\* each letter (decode_text).
AbbreviationsAreText ==
  txCode = <<>> \/
  LET Before(i) == FoldLeft(DecodeStep, Start, SubSeq(txCode, 1, i - 1))
  IN /\ \A i \in 1 .. Len(txCode) - 1 :
          LET b == Before(i)
          IN b.status = "normal" /\ b.shift = 0 /\ b.lock = 0 /\ txCode[i] = 1 /\ version >= 2 =>
               DecodeChars(txCode) = b.out \o Decode(story.abbreviations[txCode[i + 1]]) \o DecodeChars(SubSeq(txCode, i + 2, Len(txCode)))
     /\ version = 2 /\ (\A i \in DOMAIN txCode : txCode[i] >= 8) =>
          \A s \in {2, 3} : DecodeChars(<<s + 2>> \o txCode) = DecodeChars(FoldLeft(LAMBDA z, c : z \o <<s, c>>, <<>>, txCode))

\* A word is found where its entry is and nowhere else, by halves as one after
\* the other; the searches for the first and the last word enclose those that
\* are in between (lookup_text).
LookupFinds ==
  \A dict \in txDicts : txWord = <<>> \/
    LET letters == LoadString([k \in DOMAIN txWord |-> ToZscii(txWord[k])])
        entry == Lookup(letters, 5, dict)
        code == Encode(letters, 5)
    IN /\ entry # 0 => dict.entries[entry] = code
       /\ entry = 0 => code \notin Range(dict.entries)

\* The tokens of a line are its words and its separators in order, as many as
\* there is room for, each with its place; a second scan that leaves unknown
\* words alone keeps what the first one knew (tokenise_line, tokenise_text).
Break(i, dict) == i \notin DOMAIN txLine \/ txLine[i] \in dict.separators \cup {Space}
Tokens(dict) == {w \in (1 .. Len(txLine)) \X (1 .. Len(txLine)) :
                   LET i == w[1] j == w[2]
                   IN \/ i = j /\ txLine[i] \in dict.separators
                      \/ /\ i <= j /\ Break(i - 1, dict) /\ Break(j + 1, dict) /\ \A k \in i .. j : ~Break(k, dict)}
Meaning(w, dict) == Lookup(LoadString(SubSeq(txLine, w[1], w[2])), 5, dict)
LineIsTokens ==
  \A n \in {Len(txParse.scans)} \ {0} :
    LET dict == txParse.scans[n][1]
        order == SetToSortSeq(Tokens(dict), LAMBDA v, w : v[1] < w[1])
        shown == IF Len(order) <= TokenMax THEN order ELSE SubSeq(order, 1, TokenMax)
    IN /\ txParse.count = Len(shown)
       /\ \A k \in DOMAIN shown :
            LET w == shown[k] slot == txParse.slots[k] here == Meaning(w, dict)
                at == <<w[2] - w[1] + 1, w[1] + (IF version >= 5 THEN 1 ELSE 0)>>
            IN \/ (here # 0 \/ ~txParse.scans[n][2]) /\ slot = <<here, at[1], at[2]>>
               \/ /\ here = 0 /\ txParse.scans[n][2]
                  /\ n = 2 /\ txParse.scans[1] = <<dict, FALSE>> => slot = <<0, at[1], at[2]>>
                  /\ n = 2 /\ ~txParse.scans[1][2] /\ txParse.scans[1][1].separators = dict.separators
                       => slot = <<Meaning(w, txParse.scans[1][1]), at[1], at[2]>>

\* What completion adds to a word is all that the words of the dictionary that
\* begin with it have in common, and it tells whether there is one, several or
\* none. (Letters left behind by a longer word count as long as no word goes on
\* with the last letter of the alphabet.)
Starting(word, dict) == {i \in DOMAIN dict.entries : IsPrefix(word, Decode(dict.entries[i]))}
CompletionIsCommon ==
  \A dict \in txDicts : \A left \in Leftovers :
    LET of == Starting(txWord, dict)
        rest == {From(Decode(dict.entries[i]), Len(txWord)) : i \in of}
        r == Completion(txWord, left, dict)
    IN \/ txWord = <<>> \/ ~dict.sorted \/ Len(txWord) > 3 * Resolution \/ (\E c \in Range(txWord) : Takes(c) # 1)
       \/ left # <<>> /\ \E e \in rest : e # <<>> /\ e[1] = 122
       \/ /\ r[1] = (CASE of = {} -> 2 [] Cardinality(of) = 1 -> 0 [] OTHER -> 1)
          /\ \A e \in rest : IsPrefix(r[2], e)
          /\ rest # {} => \E d, e \in rest : r[2] = Common(d, e)

\* What the player types is lowered letter by letter: a capital to its small
\* letter, which stays as it is, in every block the tables know
\* (unicode_tolower; U+0400 is the one they miss).
PairsAreLowered ==
  txWord \in LowerCase => ToLower(txWord[1]) = txWord[2] /\ ToLower(txWord[2]) = txWord[2]
=============================================================================
