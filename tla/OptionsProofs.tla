--------------------------- MODULE OptionsProofs ----------------------------
(***************************************************************************)
(* Proofs about the command line: reading it from left to right, word by   *)
(* word and letter by letter, gives what it says as a whole, and what the  *)
(* stages behind make of it is the search that it asks for.                *)
(***************************************************************************)
EXTENDS Options, ProofLemmas, FiniteSetTheorems, SequenceTheorems, TLAPS

-----------------------------------------------------------------------------
(***************************************************************************)
(* The table and the uses of its entries.                                  *)
(***************************************************************************)
LEMMA FindIs == \A name : Find(name) = {k \in DOMAIN Entries : name \in Entries[k].names}
<1>1. ASSUME NEW name, NEW k \in DOMAIN Entries, name \in Entries[k].names
      PROVE  name \in DOMAIN Lookup
  BY <1>1 DEF Lookup
<1>2. \A name \in DOMAIN Lookup : Lookup[name] = {k \in DOMAIN Entries : name \in Entries[k].names}
  BY DEF Lookup
<1> QED
  BY <1>1, <1>2 DEF Find

(* Entries with a common name do the same.                                 *)
LEMMA SameEntries ==
    ASSUME NEW name, NEW k \in Find(name), NEW l \in Find(name), NEW arg
    PROVE  /\ Entries[k].field = Entries[l].field
           /\ TakesArg(k) <=> TakesArg(l)
           /\ Handle(k, arg) = Handle(l, arg)
           /\ Stored(k, arg) = Stored(l, arg)
<1>1. /\ Entries[k].handler = Entries[l].handler
      /\ Entries[k].field = Entries[l].field
      /\ Entries[k].value = Entries[l].value
  <2>1. k \in DOMAIN Entries /\ l \in DOMAIN Entries /\ Entries[k].names \cap Entries[l].names # {}
    BY FindIs
  <2> QED
    BY <2>1, EntriesAssumption
<1>2. TakesArg(k) <=> TakesArg(l)
  BY <1>1 DEF TakesArg
<1>3. Handle(k, arg) = Handle(l, arg)
  BY <1>1, Zenon DEF Handle, dropt_handle_const, dropt_handle_bool, dropt_handle_int, dropt_handle_string
<1>4. Stored(k, arg) = Stored(l, arg)
  BY <1>1, Zenon DEF Stored
<1> QED
  BY <1>1, <1>2, <1>3, <1>4

LEMMA HandleType ==
    ASSUME NEW k \in DOMAIN Entries, NEW arg
    PROVE  Handle(k, arg) \in Errors \cup {"none"}
<1>1. dropt_handle_const(k, arg) \in Errors \cup {"none"}
  BY DEF dropt_handle_const, Errors
<1>2. dropt_handle_bool(k, arg) \in Errors \cup {"none"}
  BY DEF dropt_handle_bool, Errors
<1>3. dropt_handle_string(k, arg) \in Errors \cup {"none"}
  BY DEF dropt_handle_string, Errors
<1>4. dropt_handle_int(k, arg) \in Errors \cup {"none"}
  <2>1. CASE arg \in {NULL, ""}
    BY <2>1, Zenon DEF dropt_handle_int, Errors
  <2>2. CASE arg \notin DOMAIN Numerals \cup {NULL, ""}
    BY <2>2, Zenon DEF dropt_handle_int, Errors
  <2>3. CASE arg \notin {NULL, ""} /\ arg \in DOMAIN Numerals \cup {NULL, ""}
    BY <2>3, Zenon DEF dropt_handle_int, Errors
  <2> QED
    BY <2>1, <2>2, <2>3
<1>5. Entries[k].handler \in Handlers
  BY EntriesAssumption
<1>6. CASE Entries[k].handler = "const"
  <2>1. Handle(k, arg) = dropt_handle_const(k, arg)
    BY <1>6 DEF Handle
  <2> QED
    BY <1>1, <2>1
<1>7. CASE Entries[k].handler = "bool"
  <2>1. Handle(k, arg) = dropt_handle_bool(k, arg)
    BY <1>7 DEF Handle
  <2> QED
    BY <1>2, <2>1
<1>8. CASE Entries[k].handler = "int"
  <2>1. Handle(k, arg) = dropt_handle_int(k, arg)
    BY <1>8 DEF Handle
  <2> QED
    BY <1>4, <2>1
<1>9. CASE Entries[k].handler = "string"
  <2>1. Handle(k, arg) = dropt_handle_string(k, arg)
    BY <1>9 DEF Handle
  <2> QED
    BY <1>3, <2>1
<1> QED
  BY <1>5, <1>6, <1>7, <1>8, <1>9 DEF Handlers

-----------------------------------------------------------------------------
(***************************************************************************)
(* The table and the defaults.                                             *)
(***************************************************************************)
StringFields ==
    {"pager", "path_ignore_str", "ignore_str", "ignore_dir_str", "file_search_regex_g",
     "file_search_regex_G", "ackmate_dir_filter_str", "color_line_number_str", "color_match_str",
     "color_path_str"}

IntFields ==
    {"after", "before", "context", "max_search_depth", "workers", "width", "max_matches_per_file"}

(* The kind of a field is that of every entry that stores into it.         *)
KindRight(e) ==
    /\ e.handler = "string" <=> e.field \in StringFields
    /\ e.handler = "int" <=> e.field \in IntFields
    /\ e.field = "print_line_numbers" => e.handler = "const" /\ e.value \in {0, 2}
    /\ e.field = "print_path" => e.handler = "const" /\ e.value \in {"TOP", "EACH_LINE"}
    /\ e.field = "casing" =>
        e.handler = "const" /\ e.value \in {"SENSITIVE", "SMART", "INSENSITIVE"}

Enumerated == {"print_line_numbers", "print_path", "casing"}

LEMMA KindOfEntry ==
    /\ \A n, f : f \notin StringFields \cup IntFields \cup Enumerated =>
        KindRight(Bool(n, f)) /\ KindRight(Flag(n, f)) /\ KindRight(Negation(n, f))
    /\ \A n, f, v : f \notin StringFields \cup IntFields \cup Enumerated => KindRight(Const(n, f, v))
    /\ \A n, f : f \in IntFields => KindRight(Number(n, f))
    /\ \A n, f : f \in StringFields => KindRight(String(n, f))
    /\ \A n, v : v \in {0, 2} => KindRight(Const(n, "print_line_numbers", v))
    /\ \A n, v : v \in {"TOP", "EACH_LINE"} => KindRight(Const(n, "print_path", v))
    /\ \A n, v : v \in {"SENSITIVE", "SMART", "INSENSITIVE"} => KindRight(Const(n, "casing", v))
<1>1. \A n, f, v : f \notin StringFields \cup IntFields \cup Enumerated => KindRight(Const(n, f, v))
  BY DEF KindRight, Enumerated, Const
<1>2. \A n, f : f \notin StringFields \cup IntFields \cup Enumerated => KindRight(Bool(n, f))
  BY DEF KindRight, Enumerated, Bool, Entry
<1>3. \A n, f : f \in IntFields => KindRight(Number(n, f))
  BY DEF KindRight, StringFields, IntFields, Number, Entry
<1>4. \A n, f : f \in StringFields => KindRight(String(n, f))
  BY DEF KindRight, StringFields, IntFields, String, Entry
<1>5. \A n, v : v \in {0, 2} => KindRight(Const(n, "print_line_numbers", v))
  BY DEF KindRight, StringFields, IntFields, Const
<1>6. \A n, v : v \in {"TOP", "EACH_LINE"} => KindRight(Const(n, "print_path", v))
  BY DEF KindRight, StringFields, IntFields, Const
<1>7. \A n, v : v \in {"SENSITIVE", "SMART", "INSENSITIVE"} => KindRight(Const(n, "casing", v))
  BY DEF KindRight, StringFields, IntFields, Const
<1> QED
  BY <1>1, <1>2, <1>3, <1>4, <1>5, <1>6, <1>7 DEF Flag, Negation

Row(k) == KindRight(base_options[k])

LEMMA TableKinds ==
    /\ base_options = [k \in 1 .. 76 |-> base_options[k]]
    /\ DOMAIN base_options = 1 .. 76 /\ Len(base_options) = 76
    /\ \A k \in 1 .. 76 : KindRight(base_options[k])
<1>1. DOMAIN base_options = 1 .. 76 /\ Len(base_options) = 76
  BY DEF base_options
<1>2. Row(1) /\ Row(2) /\ Row(3) /\ Row(4) /\ Row(5) /\ Row(6) /\ Row(7) /\ Row(8) /\ Row(9) /\
      Row(10)
  BY KindOfEntry DEF Row, StringFields, IntFields, Enumerated, base_options
<1>3. Row(11) /\ Row(12) /\ Row(13) /\ Row(14) /\ Row(15) /\ Row(16) /\ Row(17) /\ Row(18) /\
      Row(19) /\ Row(20)
  BY KindOfEntry DEF Row, StringFields, IntFields, Enumerated, base_options
<1>4. Row(21) /\ Row(22) /\ Row(23) /\ Row(24) /\ Row(25) /\ Row(26) /\ Row(27) /\ Row(28) /\
      Row(29) /\ Row(30)
  BY KindOfEntry DEF Row, StringFields, IntFields, Enumerated, base_options
<1>5. Row(31) /\ Row(32) /\ Row(33) /\ Row(34) /\ Row(35) /\ Row(36) /\ Row(37) /\ Row(38) /\
      Row(39) /\ Row(40)
  BY KindOfEntry DEF Row, StringFields, IntFields, Enumerated, base_options
<1>6. Row(41) /\ Row(42) /\ Row(43) /\ Row(44) /\ Row(45) /\ Row(46) /\ Row(47) /\ Row(48) /\
      Row(49) /\ Row(50)
  BY KindOfEntry DEF Row, StringFields, IntFields, Enumerated, base_options
<1>7. Row(51) /\ Row(52) /\ Row(53) /\ Row(54) /\ Row(55) /\ Row(56) /\ Row(57) /\ Row(58) /\
      Row(59) /\ Row(60)
  BY KindOfEntry DEF Row, StringFields, IntFields, Enumerated, base_options
<1>8. Row(61) /\ Row(62) /\ Row(63) /\ Row(64) /\ Row(65) /\ Row(66) /\ Row(67) /\ Row(68) /\
      Row(69) /\ Row(70)
  BY KindOfEntry DEF Row, StringFields, IntFields, Enumerated, base_options
<1>9. Row(71) /\ Row(72) /\ Row(73) /\ Row(74) /\ Row(75) /\ Row(76)
  BY KindOfEntry DEF Row, StringFields, IntFields, Enumerated, base_options
<1>10. \A k \in 1 .. 76 : Row(k)
  BY <1>2, <1>3, <1>4, <1>5, <1>6, <1>7, <1>8, <1>9
<1>11. base_options = [k \in 1 .. 76 |-> base_options[k]]
  BY <1>1 DEF base_options
<1> QED
  BY <1>1, <1>10, <1>11 DEF Row

(* The flags that are read.                                                *)
FlagFields ==
    {"show_help", "search_all_files", "opt_all_types", "search_binary_files",
     "search_hidden_files", "opt_unrestricted", "skip_vcs_ignores", "print_break", "color",
     "group", "mmap", "multiline", "follow_symlinks", "use_thread_affinity", "recurse_dirs",
     "search_stream", "parallel", "search_zip_files", "print_long_lines", "passthrough",
     "column", "one_dev", "only_matching", "print_all_paths", "stats", "word_regexp",
     "literal", "vimgrep", "ackmate", "version", "list_file_types", "opt_count",
     "opt_stats_only", "opt_files_with_matches", "opt_files_without_matches", "opt_filename",
     "opt_nofilename", "opt_invert_match", "opt_debug", "opt_silent", "useless", "opt_nopager"}

FieldAt(k, f) == base_options[k].field = f

LEMMA FieldsOfTable ==
    \A f \in FlagFields \cup StringFields \cup IntFields \cup Enumerated : \E k \in 1 .. 76 : FieldAt(k, f)
<1>1. /\ \A n, f : Bool(n, f).field = f /\ Flag(n, f).field = f /\ Negation(n, f).field = f
      /\ \A n, f : Number(n, f).field = f /\ String(n, f).field = f
      /\ \A n, f, v : Const(n, f, v).field = f
  BY DEF Bool, Flag, Negation, Number, String, Const, Entry
<1>2. FieldAt(1, "show_help") /\ FieldAt(2, "after") /\ FieldAt(3, "before") /\
      FieldAt(4, "context") /\ FieldAt(5, "max_search_depth") /\ FieldAt(6, "workers") /\
      FieldAt(7, "width") /\ FieldAt(8, "max_matches_per_file")
  BY <1>1 DEF FieldAt, base_options
<1>3. FieldAt(9, "search_all_files") /\ FieldAt(10, "opt_all_types") /\
      FieldAt(11, "search_binary_files") /\ FieldAt(12, "search_hidden_files") /\
      FieldAt(13, "opt_unrestricted") /\ FieldAt(14, "skip_vcs_ignores") /\
      FieldAt(15, "print_break") /\ FieldAt(17, "color")
  BY <1>1 DEF FieldAt, base_options
<1>4. FieldAt(19, "group") /\ FieldAt(21, "mmap") /\ FieldAt(23, "multiline") /\
      FieldAt(25, "follow_symlinks") /\ FieldAt(27, "use_thread_affinity") /\
      FieldAt(29, "recurse_dirs") /\ FieldAt(32, "print_line_numbers") /\
      FieldAt(34, "print_path")
  BY <1>1 DEF FieldAt, base_options
<1>5. FieldAt(36, "casing") /\ FieldAt(39, "path_sep") /\ FieldAt(40, "search_stream") /\
      FieldAt(41, "parallel") /\ FieldAt(42, "search_zip_files") /\
      FieldAt(43, "print_long_lines") /\ FieldAt(44, "passthrough") /\ FieldAt(45, "column")
  BY <1>1 DEF FieldAt, base_options
<1>6. FieldAt(46, "one_dev") /\ FieldAt(47, "only_matching") /\
      FieldAt(48, "print_all_paths") /\ FieldAt(49, "stats") /\ FieldAt(50, "word_regexp") /\
      FieldAt(51, "literal") /\ FieldAt(52, "vimgrep") /\ FieldAt(53, "ackmate")
  BY <1>1 DEF FieldAt, base_options
<1>7. FieldAt(54, "version") /\ FieldAt(55, "list_file_types") /\ FieldAt(56, "opt_count") /\
      FieldAt(57, "opt_stats_only") /\ FieldAt(58, "opt_files_with_matches") /\
      FieldAt(59, "opt_files_without_matches") /\ FieldAt(60, "opt_filename") /\
      FieldAt(61, "opt_nofilename")
  BY <1>1 DEF FieldAt, base_options
<1>8. FieldAt(62, "opt_invert_match") /\ FieldAt(63, "opt_debug") /\
      FieldAt(64, "opt_silent") /\ FieldAt(65, "useless") /\ FieldAt(66, "opt_nopager") /\
      FieldAt(67, "pager") /\ FieldAt(68, "path_ignore_str") /\ FieldAt(69, "ignore_str")
  BY <1>1 DEF FieldAt, base_options
<1>9. FieldAt(70, "ignore_dir_str") /\ FieldAt(71, "file_search_regex_g") /\
      FieldAt(72, "file_search_regex_G") /\ FieldAt(73, "ackmate_dir_filter_str") /\
      FieldAt(74, "color_line_number_str") /\ FieldAt(75, "color_match_str") /\
      FieldAt(76, "color_path_str")
  BY <1>1 DEF FieldAt, base_options
<1> QED
  BY <1>2, <1>3, <1>4, <1>5, <1>6, <1>7, <1>8, <1>9 DEF FlagFields, StringFields, IntFields, Enumerated

LEMMA Concatenation ==
    ASSUME NEW S, NEW s, NEW t, NEW u, s \in Seq(S), t \in Seq(S), u = s \o t
    PROVE  /\ DOMAIN u = 1 .. Len(s) + Len(t)
           /\ \A k \in 1 .. Len(s) + Len(t) : u[k] = IF k <= Len(s) THEN s[k] ELSE t[k - Len(s)]
<1>1. u \in Seq(S)
  BY ConcatProperties
<1>2. Len(u) = Len(s) + Len(t)
  BY ConcatProperties
<1>3. \A k \in 1 .. Len(s) + Len(t) : u[k] = IF k <= Len(s) THEN s[k] ELSE t[k - Len(s)]
  BY ConcatProperties
<1> QED
  BY <1>1, <1>2, <1>3

LEMMA TableOfTypes ==
    /\ DOMAIN all_options = 1 .. 76 + Len(Langs) /\ Len(Langs) \in Nat
    /\ \A k \in 1 .. 76 : all_options[k] = base_options[k]
    /\ \A i \in 1 .. Len(Langs) : all_options[76 + i] = Bool({Langs[i]}, Langs[i])
<1> DEFINE types == [i \in DOMAIN Langs |-> Bool({Langs[i]}, Langs[i])]
           All == {base_options[k] : k \in 1 .. 76} \cup {types[i] : i \in DOMAIN Langs}
<1>1. PICK n \in Nat : n = Len(Langs) /\ DOMAIN Langs = 1 .. n
  BY LangsAssumption
<1>2. types \in [1 .. n -> All] /\ base_options \in [1 .. 76 -> All]
  <2>1. types \in [1 .. n -> All]
    BY <1>1
  <2>2. base_options = [k \in 1 .. 76 |-> base_options[k]]
    BY TableKinds
  <2> QED
    BY <2>1, <2>2
<1>3. \A i \in 1 .. n : types[i] = Bool({Langs[i]}, Langs[i])
  BY <1>1
<1>4. all_options = base_options \o types
  BY DEF all_options
<1> HIDE DEF types, All
<1>5. types \in Seq(All) /\ base_options \in Seq(All) /\ Len(types) = n /\ Len(base_options) = 76
  <2>1. types \in Seq(All) /\ base_options \in Seq(All)
    <3>1. \A m \in Nat : \A s \in [1 .. m -> All] : s \in Seq(All)
      BY SeqDef, Zenon
    <3> QED
      BY <1>1, <1>2, <3>1, 76 \in Nat, Zenon
  <2>2. Len(types) = n
    BY <1>1, <1>2, <2>1
  <2> QED
    BY <2>1, <2>2, TableKinds
<1>6. /\ DOMAIN all_options = 1 .. 76 + n
      /\ \A k \in 1 .. 76 + n : all_options[k] = IF k <= 76 THEN base_options[k] ELSE types[k - 76]
  <2>1. types \in Seq(All) /\ base_options \in Seq(All)
    BY <1>5
  <2>2. /\ DOMAIN all_options = 1 .. Len(base_options) + Len(types)
        /\ \A k \in 1 .. Len(base_options) + Len(types) :
            all_options[k] =
                IF k <= Len(base_options) THEN base_options[k] ELSE types[k - Len(base_options)]
    BY <1>4, <2>1, Concatenation
  <2> QED
    BY <1>5, <2>2
<1>7. \A k \in 1 .. 76 : k \in 1 .. 76 + n
  BY <1>1
<1>8. \A i \in 1 .. n : 76 + i \in 1 .. 76 + n /\ ~(76 + i <= 76) /\ (76 + i) - 76 = i
  BY <1>1
<1>9. \A k \in 1 .. 76 : all_options[k] = base_options[k]
  BY <1>6, <1>7
<1>10. \A i \in 1 .. n : all_options[76 + i] = Bool({Langs[i]}, Langs[i])
  BY <1>3, <1>6, <1>8
<1> QED
  BY <1>1, <1>6, <1>9, <1>10

(* The fields of an option.                                                *)
Stores == FlagFields \cup StringFields \cup IntFields \cup Enumerated

LEMMA EntryKinds ==
    /\ \A k \in DOMAIN Entries : KindRight(Entries[k])
    /\ \A lang \in ToSet(Langs) : lang \in Fields(Handlers) /\ lang \notin Stores
    /\ Stores \subseteq Fields(Handlers)
    /\ \A f : (f \in Fields({"string"}) <=> f \in StringFields) /\ (f \in Fields({"int"}) <=> f \in IntFields)
<1>1. \A lang \in ToSet(Langs) : lang \notin Stores
  <2>1. ASSUME NEW lang \in ToSet(Langs), lang \in Stores PROVE FALSE
    <3>1. PICK k \in 1 .. 76 : base_options[k].field = lang
      BY <2>1, FieldsOfTable DEF Stores, FieldAt
    <3>2. k \in DOMAIN base_options
      BY TableKinds
    <3> QED
      BY <2>1, <3>1, <3>2, LangsAssumption, Zenon
  <2> QED
    BY <2>1
<1>2. \A i \in 1 .. Len(Langs) : KindRight(Bool({Langs[i]}, Langs[i]))
  <2>1. ASSUME NEW i \in 1 .. Len(Langs) PROVE Langs[i] \notin Stores
    BY <1>1, <2>1, LangsAssumption DEF ToSet
  <2> QED
    BY <2>1, KindOfEntry DEF Stores
<1>3. \A k \in DOMAIN all_options :
        \/ k \in 1 .. 76 /\ all_options[k] = base_options[k]
        \/ \E i \in 1 .. Len(Langs) : k = 76 + i /\ all_options[k] = Bool({Langs[i]}, Langs[i])
  <2>1. ASSUME NEW k \in DOMAIN all_options, k \notin 1 .. 76
        PROVE  \E i \in 1 .. Len(Langs) : k = 76 + i
    <3>1. PICK n \in Nat : n = Len(Langs) /\ DOMAIN all_options = 1 .. 76 + n
      BY TableOfTypes
    <3>2. k \in 1 .. 76 + n
      BY <2>1, <3>1, Zenon
    <3>3. k - 76 \in 1 .. n /\ k = 76 + (k - 76)
      BY <2>1, <3>2
    <3> QED
      BY <3>1, <3>3
  <2>2. ASSUME NEW k \in 1 .. 76 PROVE all_options[k] = base_options[k]
    BY TableOfTypes
  <2>3. ASSUME NEW i \in 1 .. Len(Langs) PROVE all_options[76 + i] = Bool({Langs[i]}, Langs[i])
    BY TableOfTypes
  <2> QED
    BY <2>1, <2>2, <2>3
<1>4. \A k \in DOMAIN all_options : KindRight(all_options[k])
  <2>1. \A k \in 1 .. 76 : KindRight(base_options[k])
    BY TableKinds
  <2> QED
    BY <1>2, <1>3, <2>1, Zenon
<1>5. \A k \in DOMAIN all_options : all_options[k].handler \in Handlers
  BY TableOfAg, EntriesAssumption
<1>6. \A k \in DOMAIN all_options : all_options[k].field \in Fields(Handlers)
  BY <1>5 DEF Fields
<1>7. ASSUME NEW f \in Stores
      PROVE  \E k \in DOMAIN all_options : all_options[k].field = f
  <2>1. PICK k \in 1 .. 76 : base_options[k].field = f
    BY <1>7, FieldsOfTable DEF FieldAt, Stores
  <2>2. PICK n \in Nat : DOMAIN all_options = 1 .. 76 + n
    BY TableOfTypes
  <2>3. k \in DOMAIN all_options
    BY <2>2
  <2>4. all_options[k] = base_options[k]
    BY TableOfTypes
  <2> QED
    BY <2>1, <2>3, <2>4
<1>8. \A lang \in ToSet(Langs) : lang \in Fields(Handlers)
  <2>1. ASSUME NEW i \in DOMAIN Langs PROVE Langs[i] \in Fields(Handlers)
    <3>1. i \in 1 .. Len(Langs)
      BY LangsAssumption
    <3>2. PICK n \in Nat : n = Len(Langs) /\ DOMAIN all_options = 1 .. 76 + n
      BY TableOfTypes
    <3>3. 76 + i \in DOMAIN all_options
      BY <3>1, <3>2
    <3>4. all_options[76 + i] = Bool({Langs[i]}, Langs[i])
      BY <3>1, TableOfTypes
    <3>5. all_options[76 + i].field = Langs[i]
      BY <3>4 DEF Bool, Entry
    <3> QED
      BY <1>6, <3>3, <3>5
  <2> QED
    BY <2>1 DEF ToSet
<1>9. \A f \in StringFields : f \in Fields({"string"})
  BY <1>4, <1>7 DEF Stores, Fields, KindRight
<1>10. \A f \in IntFields : f \in Fields({"int"})
  BY <1>4, <1>7 DEF Stores, Fields, KindRight
<1>11. \A f \in Fields({"string"}) : f \in StringFields
  BY <1>4 DEF Fields, KindRight
<1>12. \A f \in Fields({"int"}) : f \in IntFields
  BY <1>4 DEF Fields, KindRight
<1> QED
  BY <1>1, <1>4, <1>6, <1>7, <1>8, <1>9, <1>10, <1>11, <1>12, TableOfAg

LEMMA InitialValues ==
    /\ Initialised = [f \in DOMAIN Initialised |-> Initialised[f]]
    /\ DOMAIN Initialised =
            {"print_path", "print_line_numbers", "casing", "path_sep", "max_search_depth",
             "root_ignores", "paths", "log_level", "workers_len", "color", "group", "print_break",
             "mmap", "multiline", "recurse_dirs", "use_thread_affinity"}
    /\ Initialised["print_path"] = "DEFAULT" /\ Initialised["print_line_numbers"] = 1
    /\ Initialised["casing"] = "DEFAULT" /\ Initialised["print_break"] = TRUE
BY DEF Initialised, Over

(* The flags that are off by default.                                      *)
OffFields ==
    FlagFields \ {"search_stream", "color", "group", "print_break", "mmap", "multiline",
                  "recurse_dirs", "use_thread_affinity"}

LEMMA DefaultValues ==
    /\ Defaults = [f \in DOMAIN Defaults |-> Defaults[f]]
    /\ DOMAIN Defaults = DOMAIN init_options
    /\ Stores \cup Derived \cup DOMAIN Initialised \cup ToSet(Langs) \subseteq DOMAIN Defaults
    /\ \A f \in OffFields \cup ToSet(Langs) : Defaults[f] = FALSE
    /\ \A f \in StringFields : Defaults[f] = NULL
    /\ Defaults["workers"] = 0 /\ Defaults["print_line_numbers"] = 1
    /\ Defaults["print_path"] = "DEFAULT" /\ Defaults["casing"] = "DEFAULT"
    /\ Defaults["print_break"] = TRUE
    /\ Defaults["search_stream"] = env.stdin_pipe
    /\ Defaults["color"] = ColorByDefault /\ Defaults["group"] = env.tty
<1> DEFINE D == DOMAIN Initialised \cup (Fields(Handlers) \cup Derived)
<1>1. init_options = [f \in D |-> IF f \in DOMAIN Initialised THEN Initialised[f] ELSE Nothing(f)]
  <2> DEFINE g == [f \in Fields(Handlers) \cup Derived |-> Nothing(f)]
  <2>1. DOMAIN g = Fields(Handlers) \cup Derived /\ \A f \in DOMAIN g : g[f] = Nothing(f)
    OBVIOUS
  <2>2. init_options = Over(Initialised, g)
    BY DEF init_options
  <2> HIDE DEF g
  <2> QED
    BY <2>1, <2>2 DEF Over
<1>2. Stores \cup Derived \cup DOMAIN Initialised \cup ToSet(Langs) \subseteq D
  BY EntryKinds
<1>3. ToSet(Langs) \cap (DOMAIN Initialised \cup Derived \cup Stores) = {}
  BY EntryKinds, LangsAssumption
<1> HIDE DEF D
<1>4. /\ Defaults = [f \in D |-> Defaults[f]] /\ DOMAIN Defaults = D /\ DOMAIN init_options = D
      /\ \A f \in D \ {"search_stream", "color", "group"} : Defaults[f] = init_options[f]
      /\ "search_stream" \in D => Defaults["search_stream"] = env.stdin_pipe
      /\ "color" \in D => Defaults["color"] = ColorByDefault
      /\ "group" \in D => Defaults["group"] = env.tty
  BY <1>1 DEF Defaults
<1>5. \A f : f \notin StringFields \cup Derived \cup IntFields => Nothing(f) = FALSE
  <2>1. ASSUME NEW f, f \notin StringFields \cup Derived \cup IntFields PROVE Nothing(f) = FALSE
    <3>1. f \notin Fields({"string"}) \cup Fields({"int"})
      BY <2>1, EntryKinds
    <3>2. f \notin {"query", "re", "file_search_regex", "ackmate_dir_filter"}
      BY <2>1 DEF Derived
    <3> QED
      BY <3>1, <3>2, Zenon DEF Nothing
  <2> QED
    BY <2>1
<1>6. \A f \in StringFields : Nothing(f) = NULL
  <2>1. ASSUME NEW f \in StringFields PROVE f \in Fields({"string"}) /\ f \notin Fields({"int"})
    BY EntryKinds DEF StringFields, IntFields
  <2> QED
    BY <2>1, Zenon DEF Nothing
<1>7. Nothing("workers") = 0
  <2>1. "workers" \in Fields({"int"}) /\ "workers" \notin Fields({"string"})
    BY EntryKinds DEF StringFields, IntFields
  <2>2. "workers" \notin {"query", "re", "file_search_regex", "ackmate_dir_filter"}
    OBVIOUS
  <2> QED
    BY <2>1, <2>2, Zenon DEF Nothing
<1>8. \A f \in OffFields :
        /\ f \notin StringFields \cup Derived \cup IntFields \cup DOMAIN Initialised
        /\ f \notin {"search_stream", "color", "group"}
  BY InitialValues DEF OffFields, FlagFields, StringFields, IntFields, Derived
<1>9. \A f \in OffFields \cup ToSet(Langs) : Defaults[f] = FALSE
  <2>1. ASSUME NEW f \in OffFields PROVE Defaults[f] = FALSE
    BY <1>1, <1>2, <1>4, <1>5, <1>8 DEF Stores, OffFields
  <2>2. ASSUME NEW f \in ToSet(Langs) PROVE Defaults[f] = FALSE
    <3>1. f \notin {"search_stream", "color", "group"}
      BY <1>3 DEF Stores, FlagFields
    <3> QED
      BY <1>1, <1>2, <1>3, <1>4, <1>5, <3>1 DEF Stores
  <2> QED
    BY <2>1, <2>2
<1>10. \A f \in StringFields : Defaults[f] = NULL
  <2>1. \A f \in StringFields : f \notin DOMAIN Initialised /\ f \notin {"search_stream", "color", "group"}
    BY InitialValues DEF StringFields
  <2> QED
    BY <1>1, <1>2, <1>4, <1>6, <2>1 DEF Stores
<1>11. Defaults["workers"] = 0
  <2>1. "workers" \notin DOMAIN Initialised /\ "workers" \notin {"search_stream", "color", "group"}
    BY InitialValues
  <2>2. "workers" \in D
    BY <1>2 DEF Stores, IntFields
  <2> QED
    BY <1>1, <1>4, <1>7, <2>1, <2>2
<1>12. /\ Defaults["print_line_numbers"] = 1 /\ Defaults["print_path"] = "DEFAULT"
       /\ Defaults["casing"] = "DEFAULT" /\ Defaults["print_break"] = TRUE
  <2>1. \A f \in {"print_line_numbers", "print_path", "casing", "print_break"} :
            f \in DOMAIN Initialised /\ f \notin {"search_stream", "color", "group"}
    BY InitialValues
  <2>2. \A f \in {"print_line_numbers", "print_path", "casing", "print_break"} :
            Defaults[f] = Initialised[f]
    BY <1>1, <1>2, <1>4, <2>1
  <2> QED
    BY <2>2, InitialValues
<1>13. {"search_stream", "color", "group"} \subseteq D
  BY <1>2 DEF Stores, FlagFields
<1> QED
  BY <1>2, <1>4, <1>9, <1>10, <1>11, <1>12, <1>13

(* Every option has a cell, and so has every file type.                    *)
LEMMA DefaultsFacts ==
    /\ Defaults = [f \in DOMAIN Defaults |-> Defaults[f]]
    /\ \A k \in DOMAIN Entries : Entries[k].field \in DOMAIN Defaults
    /\ \A lang \in ToSet(Langs) : lang \in DOMAIN Defaults /\ Defaults[lang] = FALSE
<1>1. \A k \in DOMAIN Entries : Entries[k].field \in Fields(Handlers)
  BY TableOfAg, EntriesAssumption DEF Fields
<1>2. Fields(Handlers) \subseteq DOMAIN init_options
  BY DEF init_options, Over
<1> QED
  BY <1>1, <1>2, DefaultValues

-----------------------------------------------------------------------------
(***************************************************************************)
(* What the command line says as a whole.                                  *)
(***************************************************************************)
AtUse(i, j, V) ==
    [at |-> <<i, j>>, entries |-> Find(Reading[argv[i]].names[j]), arg |-> ArgumentAt(i, j, V)]

LEMMA UsesAre ==
    ASSUME NEW V, NEW u
    PROVE  u \in Uses(V) <=>
               \E i \in (1 .. FirstPlain(V) - 1) \ V :
                   \E j \in DOMAIN Reading[argv[i]].names : u = AtUse(i, j, V)
BY DEF Uses, UsesOf, AtUse

(* A word of the command line.                                             *)
LEMMA WordFacts ==
    ASSUME argv \in Seq(DOMAIN Reading), NEW i \in 1 .. Len(argv)
    PROVE  /\ argv[i] \in STRING /\ argv[i] \in DOMAIN Reading
           /\ Reading[argv[i]].option \in BOOLEAN /\ Reading[argv[i]].equals \in BOOLEAN
           /\ Reading[argv[i]].arg \in STRING \cup {NULL}
           /\ Reading[argv[i]].names \in Seq(STRING)
           /\ DOMAIN Reading[argv[i]].names = 1 .. Len(Reading[argv[i]].names)
           /\ Len(Reading[argv[i]].names) \in Nat
<1>1. argv[i] \in DOMAIN Reading
  OBVIOUS
<1>2. /\ argv[i] \in STRING
      /\ Reading[argv[i]] \in [option : BOOLEAN, names : Seq(STRING), equals : BOOLEAN,
                               arg : STRING \cup {NULL}]
  BY <1>1, ReadingAssumption
<1>3. Reading[argv[i]].names \in Seq(STRING)
  BY <1>2
<1> QED
  BY <1>1, <1>2, <1>3

(* Where the words that are no options begin.                              *)
LEMMA FirstPlainFacts ==
    ASSUME argv \in Seq(DOMAIN Reading), NEW V
    PROVE  /\ FirstPlain(V) \in 1 .. Len(argv) + 1
           /\ FirstPlain(V) <= Len(argv) =>
                FirstPlain(V) \notin V /\ ~Reading[argv[FirstPlain(V)]].option
           /\ \A i \in 1 .. FirstPlain(V) - 1 : i \in V \/ Reading[argv[i]].option
<1> DEFINE S == {Len(argv) + 1} \cup {i \in DOMAIN argv \ V : ~Reading[argv[i]].option}
<1>1. PICK n \in Nat : n = Len(argv) /\ DOMAIN argv = 1 .. n
  OBVIOUS
<1>2. S # {} /\ \A x \in S : x \in Int /\ x >= 1
  BY <1>1
<1>3. \A x : x \in S <=> x = n + 1 \/ (x \in 1 .. n /\ x \notin V /\ ~Reading[argv[x]].option)
  BY <1>1
<1>4. FirstPlain(V) = Min(S)
  BY DEF FirstPlain
<1> HIDE DEF S
<1>5. Min(S) \in S /\ \A x \in S : Min(S) <= x
  BY <1>2, LeastOf, 1 \in Int
<1> QED
  BY <1>1, <1>3, <1>4, <1>5

(* Of two uses one is before the other.                                    *)
LEMMA UsesInOrder ==
    ASSUME argv \in Seq(DOMAIN Reading), NEW V, NEW u \in Uses(V), NEW v \in Uses(V)
    PROVE  u = v \/ Before(u, v) \/ Before(v, u)
<1>1. PICK i \in (1 .. FirstPlain(V) - 1) \ V : \E j \in DOMAIN Reading[argv[i]].names : u = AtUse(i, j, V)
  BY UsesAre
<1>2. PICK j \in DOMAIN Reading[argv[i]].names : u = AtUse(i, j, V)
  BY <1>1
<1>3. PICK k \in (1 .. FirstPlain(V) - 1) \ V : \E l \in DOMAIN Reading[argv[k]].names : v = AtUse(k, l, V)
  BY UsesAre
<1>4. PICK l \in DOMAIN Reading[argv[k]].names : v = AtUse(k, l, V)
  BY <1>3
<1>5. i \in 1 .. Len(argv) /\ k \in 1 .. Len(argv)
  BY FirstPlainFacts
<1>6. i \in Int /\ k \in Int /\ j \in Int /\ l \in Int
  BY <1>5, WordFacts
<1>7. u.at[1] = i /\ u.at[2] = j /\ v.at[1] = k /\ v.at[2] = l
  BY <1>2, <1>4 DEF AtUse
<1>8. CASE i = k /\ j = l
  BY <1>2, <1>4, <1>8
<1>9. CASE i # k \/ j # l
  BY <1>6, <1>7, <1>9 DEF Before
<1> QED
  BY <1>8, <1>9

(* The last use of a field is the one no other is behind.                  *)
LEMMA LastUseIs ==
    ASSUME argv \in Seq(DOMAIN Reading), NEW V, NEW f, NEW u \in Uses(V), f \in SetBy(u),
           \A v \in Uses(V) : Before(u, v) => f \notin SetBy(v)
    PROVE  LastUse(f, Uses(V)) = u
<1> DEFINE IsLastUse(w) == f \in SetBy(w) /\ \A v \in Uses(V) : Before(w, v) => f \notin SetBy(v)
<1>1. LastUse(f, Uses(V)) = CHOOSE w \in Uses(V) : IsLastUse(w)
  BY DEF LastUse
<1>2. IsLastUse(u)
  OBVIOUS
<1>3. ASSUME NEW w \in Uses(V), IsLastUse(w) PROVE w = u
  BY <1>3, UsesInOrder
<1> HIDE DEF IsLastUse
<1>4. PICK w \in Uses(V) : w = (CHOOSE x \in Uses(V) : IsLastUse(x)) /\ IsLastUse(w)
  BY <1>2, Zenon
<1> QED
  BY <1>1, <1>3, <1>4, Zenon

-----------------------------------------------------------------------------
(***************************************************************************)
(* The invariant of dropt_parse().                                         *)
(***************************************************************************)
(* No argument is read as an option, and all before it are.                *)
Place(V) ==
    /\ argNext \in 1 .. Len(argv) + 1 /\ argNext \notin V
    /\ \A i \in 1 .. argNext - 1 : i \in V \/ Reading[argv[i]].option
    /\ letter \in Nat \ {0}
    /\ letter # 1 => argNext <= Len(argv) /\ Here.option /\ letter <= Len(Here.names)

(* What has been read.                                                     *)
Passed(u) == u.at[1] < argNext \/ (u.at[1] = argNext /\ u.at[2] < letter)

Sound(u) == \E k \in u.entries : Handle(k, u.arg) = "none"

Accepted(V) ==
    /\ errorDetails = NULL
    /\ \A i \in (1 .. argNext - 1) \ V : Reading[argv[i]].names # <<>>
    /\ \A u \in Uses(V) : Passed(u) => Sound(u)

(* A field has its default, or what the last option read for it says.      *)
Untouched(f, V) == opts[f] = Defaults[f] /\ \A u \in Uses(V) : Passed(u) => f \notin SetBy(u)

SetLastBy(f, u, V) ==
    /\ Passed(u) /\ f \in SetBy(u) /\ opts[f] = ValueOf(u)
    /\ \A v \in Uses(V) : Passed(v) /\ Before(u, v) => f \notin SetBy(v)

Values(V) ==
    /\ opts = [f \in DOMAIN Defaults |-> opts[f]]
    /\ \A f \in DOMAIN Defaults : Untouched(f, V) \/ \E u \in Uses(V) : SetLastBy(f, u, V)

Taken(V) == V \in SUBSET DOMAIN argv /\ AreTaken(V)

(* The option that is next.                                                *)
LEMMA NextOption ==
    ASSUME argv \in Seq(DOMAIN Reading), NEW V, Taken(V), Place(V), AtOption
    PROVE  /\ argNext \in (1 .. FirstPlain(V) - 1) \ V
           /\ Here.names # <<>> =>
                /\ letter \in DOMAIN Here.names
                /\ AtUse(argNext, letter, V) \in Uses(V)
                /\ \A k \in Find(Here.names[letter]) : ArgumentOf(k) = ArgumentAt(argNext, letter, V)
                /\ \A k \in Find(Here.names[letter]) : ConsumeNextArg(k) <=> IsLast /\ argNext + 1 \in V
<1>1. PICK n \in 1 .. Len(argv) : n = argNext
  BY DEF Place, AtOption
<1>2. n \in (1 .. FirstPlain(V) - 1) \ V
  <2>1. FirstPlain(V) > n
    <3>1. \A i \in 1 .. n : i \in V \/ Reading[argv[i]].option
      BY <1>1 DEF Place, AtOption, Here
    <3> QED
      BY <3>1, FirstPlainFacts
  <2> QED
    BY <1>1, <2>1, FirstPlainFacts DEF Place
<1>3. ASSUME Here.names # <<>>
      PROVE  letter \in DOMAIN Here.names /\ AtUse(n, letter, V) \in Uses(V)
  <2>1. Here.names \in Seq(STRING) /\ DOMAIN Here.names = 1 .. Len(Here.names) /\ Len(Here.names) \in Nat
    BY <1>1, WordFacts DEF Here
  <2>2. Len(Here.names) > 0
    BY <1>3, <2>1
  <2>3. letter \in DOMAIN Here.names
    BY <2>1, <2>2 DEF Place
  <2> QED
    BY <1>1, <1>2, <2>3, UsesAre DEF Here
<1>4. ASSUME Here.names # <<>>, NEW k \in Find(Here.names[letter])
      PROVE  /\ ConsumeNextArg(k) <=> IsLast /\ argNext + 1 \in V
             /\ ArgumentOf(k) = ArgumentAt(argNext, letter, V)
  <2>1. ConsumeNextArg(k) <=> IsLast /\ n + 1 \in V
    <3>1. CASE IsLast
      <4>1. Here.names[letter] = Last(Here.names)
        BY <3>1, Zenon DEF IsLast, Last
      <4>2. (\E l \in Find(Last(Here.names)) : TakesArg(l)) <=> TakesArg(k)
        BY <1>4, <4>1, SameEntries
      <4>3. n + 1 \in V <=> n + 1 \in DOMAIN argv /\ Wants(argv[n])
        <5>1. (n + 1) - 1 = n /\ n + 1 > 1
          OBVIOUS
        <5>2. V \subseteq DOMAIN argv /\ n \notin V
          BY <1>2 DEF Taken
        <5>3. n + 1 \in DOMAIN argv => (n + 1 \in V <=> Wants(argv[n]))
          <6>1. ASSUME NEW i \in DOMAIN argv
                PROVE  i \in V <=> i > 1 /\ i - 1 \notin V /\ Wants(argv[i - 1])
            BY Zenon DEF Taken, AreTaken
          <6> QED
            BY <5>1, <5>2, <6>1
        <5> QED
          BY <5>2, <5>3
      <4>4. Wants(argv[n]) <=> ~Here.equals /\ TakesArg(k)
        BY <1>1, <1>4, <4>2 DEF Wants, Here, AtOption
      <4>5. n + 1 \in DOMAIN argv <=> n < Len(argv)
        BY <1>1
      <4> QED
        BY <1>1, <3>1, <4>3, <4>4, <4>5 DEF ConsumeNextArg
    <3>2. CASE ~IsLast
      BY <3>2 DEF ConsumeNextArg
    <3> QED
      BY <3>1, <3>2
  <2>2. Here = Reading[argv[n]] /\ (IsLast <=> letter = Len(Reading[argv[n]].names))
    BY <1>1 DEF Here, IsLast
  <2>3. ConsumeNextArg(k) => ~Here.equals
    BY DEF ConsumeNextArg
  <2>4. CASE IsLast /\ Here.equals
    <3>1. ArgumentOf(k) = Here.arg
      BY <2>3, <2>4, Zenon DEF ArgumentOf
    <3>2. ArgumentAt(n, letter, V) = Here.arg
      BY <2>1, <2>2, <2>3, <2>4, Zenon DEF ArgumentAt
    <3> QED
      BY <1>1, <2>1, <3>1, <3>2
  <2>5. CASE ConsumeNextArg(k)
    <3>1. ArgumentOf(k) = argv[argNext + 1]
      BY <2>3, <2>5, Zenon DEF ArgumentOf
    <3>2. ArgumentAt(n, letter, V) = argv[n + 1]
      BY <2>1, <2>2, <2>3, <2>5, Zenon DEF ArgumentAt
    <3> QED
      BY <1>1, <2>1, <3>1, <3>2
  <2>6. CASE ~(IsLast /\ Here.equals) /\ ~ConsumeNextArg(k)
    <3>1. ArgumentOf(k) = NULL
      BY <2>6, Zenon DEF ArgumentOf
    <3>2. ArgumentAt(n, letter, V) = NULL
      BY <2>1, <2>2, <2>6, Zenon DEF ArgumentAt
    <3> QED
      BY <1>1, <2>1, <3>1, <3>2
  <2> QED
    BY <2>4, <2>5, <2>6
<1> QED
  BY <1>1, <1>2, <1>3, <1>4

(* What the command line says does not change while it is read.            *)
LEMMA SameWords ==
    ASSUME argv' = argv, NEW V
    PROVE  /\ Taken(V)' <=> Taken(V)
           /\ FirstPlain(V)' = FirstPlain(V)
           /\ Uses(V)' = Uses(V)
           /\ Reads(V, Uses(V))' = Reads(V, Uses(V))
<1>1. Taken(V)' <=> Taken(V)
  BY DEF Taken, AreTaken
<1>2. FirstPlain(V)' = FirstPlain(V)
  BY Zenon DEF FirstPlain
<1>3. \A i, j : ArgumentAt(i, j, V)' = ArgumentAt(i, j, V)
  BY Zenon DEF ArgumentAt
<1>4. Uses(V)' = Uses(V)
  <2>1. ASSUME NEW i PROVE UsesOf(i, V)' = UsesOf(i, V)
    BY <1>3 DEF UsesOf
  <2> QED
    BY <1>2, <2>1 DEF Uses
<1>5. \A uses : WellFormed(V, uses)' <=> WellFormed(V, uses)
  BY <1>2, Zenon DEF WellFormed
<1>6. LeftOver(V)' = LeftOver(V)
  BY <1>2, Zenon DEF LeftOver
<1> QED
  BY <1>1, <1>2, <1>4, <1>5, <1>6, Zenon DEF Reads

(* One more use is behind the reader when an option has been stored.       *)
LEMMA OneMore ==
    ASSUME argv \in Seq(DOMAIN Reading), NEW V, Taken(V), Place(V), SetOption
    PROVE  /\ Place(V)'
           /\ AtUse(argNext, letter, V) \in Uses(V)
           /\ ~Passed(AtUse(argNext, letter, V))
           /\ \A i \in 1 .. argNext' - 1 : i < argNext \/ i \in V \/ i = argNext
           /\ \A u \in Uses(V) : Passed(u)' <=> Passed(u) \/ u = AtUse(argNext, letter, V)
           /\ \A u \in Uses(V) : Passed(u) => Before(u, AtUse(argNext, letter, V))
           /\ \A u \in Uses(V) : Passed(u)' => ~Before(AtUse(argNext, letter, V), u)
<1>1. PICK n \in 1 .. Len(argv) : n = argNext
  BY DEF Place, SetOption, AtOption
<1>2. /\ AtOption /\ Here.names # <<>> /\ argv' = argv /\ n \in (1 .. FirstPlain(V) - 1) \ V
      /\ letter \in DOMAIN Here.names /\ AtUse(n, letter, V) \in Uses(V)
  BY <1>1, NextOption DEF SetOption
<1>3. PICK w \in Nat : w = Len(Here.names) /\ DOMAIN Here.names = 1 .. w
  BY <1>1, WordFacts DEF Here
<1>4. PICK j \in 1 .. w : j = letter
  BY <1>2, <1>3
<1>5. (IsLast <=> j = w) /\ letter' = IF j = w THEN 1 ELSE j + 1
  BY <1>3, <1>4 DEF IsLast, SetOption
<1>6. argNext' = IF j = w THEN IF n + 1 \in V THEN n + 2 ELSE n + 1 ELSE n
  <2>1. PICK k \in Find(Here.names[letter]) :
            argNext' = argNext + (IF ConsumeNextArg(k) THEN 2 ELSE IF IsLast THEN 1 ELSE 0)
    BY DEF SetOption
  <2>2. ConsumeNextArg(k) <=> IsLast /\ n + 1 \in V
    BY <1>1, <1>2, <2>1, NextOption
  <2> QED
    BY <1>1, <1>5, <2>1, <2>2
<1>7. n + 1 \in V => n + 1 <= Len(argv) /\ n + 2 \notin V
  <2>1. ASSUME n + 1 \in V, n + 2 \in V PROVE FALSE
    <3>1. n + 2 \in DOMAIN argv /\ (n + 2) - 1 = n + 1
      BY <2>1 DEF Taken
    <3>2. ASSUME NEW i \in DOMAIN argv, i \in V PROVE i - 1 \notin V
      BY <3>2, Zenon DEF Taken, AreTaken
    <3> QED
      BY <2>1, <3>1, <3>2
  <2> QED
    BY <2>1 DEF Taken
<1>8. Place(V)'
  <2>1. argNext' \in 1 .. Len(argv) + 1 /\ argNext' \notin V
    BY <1>2, <1>6, <1>7
  <2>2. \A i \in 1 .. argNext' - 1 : i \in V \/ Reading[argv[i]].option
    <3>1. \A i \in 1 .. n : i \in V \/ Reading[argv[i]].option
      BY <1>1, <1>2 DEF Place, AtOption, Here
    <3> QED
      BY <1>6, <3>1
  <2>3. letter' \in Nat \ {0}
    BY <1>5
  <2>4. letter' # 1 => argNext' <= Len(argv) /\ Here'.option /\ letter' <= Len(Here'.names)
    <3>1. ASSUME letter' # 1 PROVE j + 1 = letter' /\ j + 1 <= w /\ argNext' = n
      BY <1>5, <1>6, <3>1
    <3>2. ASSUME argNext' = n PROVE Here' = Here
      BY <1>1, <1>2, <3>2 DEF Here
    <3> QED
      BY <1>1, <1>2, <1>3, <3>1, <3>2 DEF AtOption
  <2> QED
    BY <1>2, <2>1, <2>2, <2>3, <2>4 DEF Place
<1>9. ASSUME NEW u \in Uses(V)
      PROVE  /\ Passed(u)' <=> Passed(u) \/ u = AtUse(n, letter, V)
             /\ Passed(u) => Before(u, AtUse(n, letter, V))
             /\ u = AtUse(n, letter, V) => ~Passed(u)
             /\ Passed(u)' => ~Before(AtUse(n, letter, V), u)
  <2>1. PICK i \in (1 .. FirstPlain(V) - 1) \ V : \E m \in DOMAIN Reading[argv[i]].names : u = AtUse(i, m, V)
    BY UsesAre
  <2>2. PICK m \in DOMAIN Reading[argv[i]].names : u = AtUse(i, m, V)
    BY <2>1
  <2>3. i \in 1 .. Len(argv) /\ m \in 1 .. Len(Reading[argv[i]].names) /\ Len(Reading[argv[i]].names) \in Nat
    BY FirstPlainFacts, WordFacts
  <2>4. i = n => m \in 1 .. w
    BY <1>1, <1>3, <2>3 DEF Here
  <2>5. u.at[1] = i /\ u.at[2] = m
    BY <2>2 DEF AtUse
  <2>6. AtUse(n, letter, V).at[1] = n /\ AtUse(n, letter, V).at[2] = j
    BY <1>4 DEF AtUse
  <2>7. Passed(u) <=> i < n \/ (i = n /\ m < j)
    BY <1>1, <1>4, <2>5 DEF Passed
  <2>8. Passed(u)' <=> i < argNext' \/ (i = argNext' /\ m < letter')
    BY <2>5 DEF Passed
  <2>9. u = AtUse(n, letter, V) <=> i = n /\ m = j
    BY <1>4, <2>2, <2>5, <2>6
  <2>10. i # n + 1 \/ n + 1 \notin V
    BY <2>1
  <2>11. Passed(u)' <=> Passed(u) \/ u = AtUse(n, letter, V)
    <3>1. CASE j # w
      BY <1>5, <1>6, <2>3, <2>7, <2>8, <2>9, <3>1
    <3>2. CASE j = w /\ n + 1 \in V
      BY <1>5, <1>6, <2>3, <2>4, <2>7, <2>8, <2>9, <2>10, <3>2
    <3>3. CASE j = w /\ n + 1 \notin V
      BY <1>5, <1>6, <2>3, <2>4, <2>7, <2>8, <2>9, <3>3
    <3> QED
      BY <3>1, <3>2, <3>3
  <2> QED
    BY <2>3, <2>5, <2>6, <2>7, <2>9, <2>11 DEF Before
<1>10. \A i \in 1 .. argNext' - 1 : i < n \/ i \in V \/ i = n
  BY <1>6
<1> QED
  BY <1>1, <1>2, <1>8, <1>9, <1>10

(* An option that is stored is the last for its field.                     *)
LEMMA StoreRight ==
    ASSUME argv \in Seq(DOMAIN Reading), NEW V, Taken(V), Place(V), Accepted(V), Values(V),
           SetOption, env' = env
    PROVE  Accepted(V)' /\ Values(V)'
<1>0. PICK u0 : u0 = AtUse(argNext, letter, V)
  OBVIOUS
<1>1. PICK k \in Find(Here.names[letter]) :
          /\ Handle(k, ArgumentOf(k)) = "none"
          /\ opts' = [opts EXCEPT ![Entries[k].field] = Stored(k, ArgumentOf(k))]
  BY DEF SetOption
<1>2. /\ AtOption /\ Here.names # <<>> /\ argv' = argv /\ errorDetails' = errorDetails
      /\ ArgumentOf(k) = ArgumentAt(argNext, letter, V)
  BY <1>1, NextOption DEF SetOption
<1>3. u0.entries = Find(Here.names[letter]) /\ u0.arg = ArgumentOf(k)
  BY <1>0, <1>2 DEF AtUse, Here
<1>4. PICK F : F = Entries[k].field
  OBVIOUS
<1>5. Sound(u0) /\ SetBy(u0) = {F} /\ ValueOf(u0) = Stored(k, ArgumentOf(k))
  <2>1. Sound(u0)
    BY <1>1, <1>3 DEF Sound
  <2>2. \A l \in u0.entries : Entries[l].field = F /\ Stored(l, ArgumentOf(k)) = Stored(k, ArgumentOf(k))
    BY <1>1, <1>3, <1>4, SameEntries
  <2>3. SetBy(u0) = {F}
    BY <1>1, <1>3, <2>2, TableOfAg DEF SetBy
  <2>4. ValueOf(u0) = Stored(k, ArgumentOf(k))
    <3>1. PICK l \in u0.entries : l = (CHOOSE x \in u0.entries : TRUE)
      BY <1>1, <1>3
    <3> QED
      BY <1>3, <2>2, <3>1 DEF ValueOf
  <2> QED
    BY <2>1, <2>3, <2>4
<1>6. F \in DOMAIN Defaults
  BY <1>1, <1>4, FindIs, DefaultsFacts
<1>7. /\ u0 \in Uses(V) /\ ~Passed(u0)
      /\ \A i \in 1 .. argNext' - 1 : i < argNext \/ i \in V \/ i = argNext
      /\ \A u \in Uses(V) : Passed(u)' <=> Passed(u) \/ u = u0
      /\ \A u \in Uses(V) : Passed(u) => Before(u, u0)
      /\ \A u \in Uses(V) : Passed(u)' => ~Before(u0, u)
  BY <1>0, OneMore
<1>8. Uses(V)' = Uses(V) /\ Defaults' = Defaults
  BY <1>2, SameWords DEF Defaults, ColorByDefault
<1>9. Accepted(V)'
  <2>1. \A i \in (1 .. argNext' - 1) \ V : Reading[argv[i]].names # <<>>
    <3>1. ASSUME NEW i \in (1 .. argNext' - 1) \ V PROVE Reading[argv[i]].names # <<>>
      <4>1. i < argNext \/ i = argNext
        BY <1>7
      <4>2. CASE i < argNext
        BY <4>2 DEF Accepted, Place
      <4>3. CASE i = argNext
        BY <1>2, <4>3 DEF Here
      <4> QED
        BY <4>1, <4>2, <4>3
    <3> QED
      BY <3>1
  <2>2. \A u \in Uses(V) : Passed(u)' => Sound(u)
    BY <1>5, <1>7 DEF Accepted
  <2> QED
    BY <1>2, <1>8, <2>1, <2>2 DEF Accepted
<1>10. /\ opts' = [f \in DOMAIN Defaults |-> opts'[f]]
       /\ opts'[F] = ValueOf(u0)
       /\ \A f \in DOMAIN Defaults : f # F => opts'[f] = opts[f]
  <2>1. opts' = [opts EXCEPT ![F] = ValueOf(u0)]
    BY <1>1, <1>4, <1>5
  <2>2. opts = [f \in DOMAIN Defaults |-> opts[f]]
    BY DEF Values
  <2> QED
    BY <1>6, <2>1, <2>2
<1>11. SetLastBy(F, u0, V)'
  BY <1>5, <1>7, <1>8, <1>10 DEF SetLastBy
<1>12. ASSUME NEW f \in DOMAIN Defaults, f # F
       PROVE  Untouched(f, V)' \/ \E u \in Uses(V) : SetLastBy(f, u, V)'
  <2>1. opts'[f] = opts[f] /\ f \notin SetBy(u0)
    BY <1>5, <1>10, <1>12
  <2>2. CASE Untouched(f, V)
    BY <1>7, <1>8, <2>1, <2>2 DEF Untouched
  <2>3. ASSUME NEW u \in Uses(V), SetLastBy(f, u, V) PROVE SetLastBy(f, u, V)'
    BY <1>7, <1>8, <2>1, <2>3 DEF SetLastBy
  <2> QED
    BY <2>2, <2>3 DEF Values
<1> QED
  BY <1>7, <1>8, <1>9, <1>10, <1>11, <1>12 DEF Values

(* An error means that the command line as a whole is wrong.               *)
LEMMA ErrorRight ==
    ASSUME argv \in Seq(DOMAIN Reading), NEW V, Taken(V), Place(V),
           Nameless \/ UnknownOption \/ BadArgument
    PROVE  pc' = "parsed" /\ errorDetails' # NULL /\ argv' = argv /\ ~WellFormed(V, Uses(V))
<1>1. AtOption
  BY DEF Nameless, UnknownOption, BadArgument
<1>2. PICK n \in 1 .. Len(argv) : n = argNext
  BY <1>1 DEF Place, AtOption
<1>3. n \in (1 .. FirstPlain(V) - 1) \ V
  BY <1>1, <1>2, NextOption
<1>4. /\ argv[n] \in STRING /\ Here.names \in Seq(STRING) /\ Here.arg \in STRING \cup {NULL}
  BY <1>2, WordFacts DEF Here
<1>5. ASSUME NEW err \in Errors, NEW name \in STRING, NEW arg \in STRING \cup {NULL},
             set_error_details(err, name, arg)
      PROVE  pc' = "parsed" /\ errorDetails' # NULL /\ argv' = argv
  <2>1. [err |-> err, optionName |-> name, optionArgument |-> arg] # NULL
    BY NullAssumption
  <2> QED
    BY <1>5, <2>1 DEF set_error_details
<1>6. CASE Nameless
  <2>1. ~WellFormed(V, Uses(V))
    BY <1>2, <1>3, <1>6 DEF Nameless, Here, WellFormed
  <2>2. "invalid_option" \in Errors /\ set_error_details("invalid_option", argv[n], NULL)
    BY <1>2, <1>6 DEF Nameless, Errors
  <2> QED
    BY <1>4, <1>5, <2>1, <2>2
<1>7. ASSUME Here.names # <<>>
      PROVE  /\ Here.names[letter] \in STRING /\ AtUse(n, letter, V) \in Uses(V)
             /\ AtUse(n, letter, V).entries = Find(Here.names[letter])
             /\ \A k \in Find(Here.names[letter]) : AtUse(n, letter, V).arg = ArgumentOf(k)
  <2>1. letter \in DOMAIN Here.names
    BY <1>1, <1>7, NextOption
  <2>2. AtUse(n, letter, V) \in Uses(V)
    BY <1>1, <1>2, <1>7, NextOption
  <2>3. AtUse(n, letter, V).entries = Find(Here.names[letter])
    BY <1>2 DEF AtUse, Here
  <2>4. \A k \in Find(Here.names[letter]) : ArgumentOf(k) = ArgumentAt(argNext, letter, V)
    BY <1>1, <1>7, NextOption
  <2>5. AtUse(n, letter, V).arg = ArgumentAt(argNext, letter, V)
    BY <1>2 DEF AtUse
  <2> QED
    BY <1>4, <2>1, <2>2, <2>3, <2>4, <2>5
<1>8. CASE UnknownOption
  <2>1. Here.names # <<>> /\ Find(Here.names[letter]) = {}
    BY <1>8 DEF UnknownOption
  <2>2. ~WellFormed(V, Uses(V))
    BY <1>7, <2>1 DEF WellFormed
  <2>3. "invalid_option" \in Errors /\ set_error_details("invalid_option", Here.names[letter], NULL)
    BY <1>8 DEF UnknownOption, Errors
  <2> QED
    BY <1>5, <1>7, <2>1, <2>2, <2>3
<1>9. CASE BadArgument
  <2>1. PICK k \in Find(Here.names[letter]) :
            /\ Handle(k, ArgumentOf(k)) # "none"
            /\ set_error_details(Handle(k, ArgumentOf(k)), Here.names[letter], ArgumentOf(k))
    BY <1>9 DEF BadArgument
  <2>2. Here.names # <<>>
    BY <1>9 DEF BadArgument
  <2>3. \A l \in Find(Here.names[letter]) : Handle(l, AtUse(n, letter, V).arg) = Handle(k, ArgumentOf(k))
    BY <1>7, <2>1, <2>2, SameEntries
  <2>4. ~WellFormed(V, Uses(V))
    BY <1>7, <2>1, <2>2, <2>3 DEF WellFormed
  <2>5. Handle(k, ArgumentOf(k)) \in Errors
    BY <2>1, FindIs, HandleType
  <2>6. ArgumentOf(k) \in STRING \cup {NULL}
    <3>1. CASE IsLast /\ Here.equals
      <4>1. ~ConsumeNextArg(k)
        BY <3>1 DEF ConsumeNextArg
      <4> QED
        BY <1>4, <3>1, <4>1, Zenon DEF ArgumentOf
    <3>2. CASE ConsumeNextArg(k)
      <4>1. n + 1 \in 1 .. Len(argv) /\ ~Here.equals
        BY <1>2, <3>2 DEF ConsumeNextArg
      <4>2. argv[argNext + 1] \in STRING
        BY <1>2, <4>1, WordFacts
      <4> QED
        BY <3>2, <4>1, <4>2, Zenon DEF ArgumentOf
    <3>3. CASE ~(IsLast /\ Here.equals) /\ ~ConsumeNextArg(k)
      BY <3>3, Zenon DEF ArgumentOf
    <3> QED
      BY <3>1, <3>2, <3>3
  <2> QED
    BY <1>5, <1>7, <2>1, <2>2, <2>4, <2>5, <2>6
<1> QED
  BY <1>6, <1>8, <1>9

(* dropt_parse() stops at the first word that is no option.                *)
LEMMA EndIsHere ==
    ASSUME argv \in Seq(DOMAIN Reading), NEW V, Place(V), EndOfOptions
    PROVE  FirstPlain(V) = argNext
<1>1. PICK n \in 1 .. Len(argv) + 1 : n = argNext
  BY DEF Place
<1>2. PICK m \in Nat : m = Len(argv) /\ DOMAIN argv = 1 .. m
  OBVIOUS
<1>3. n = m + 1 \/ (n <= m /\ ~Reading[argv[n]].option)
  BY <1>1, <1>2 DEF EndOfOptions, AtOption, Here
<1>4. n \notin V /\ \A i \in 1 .. n - 1 : i \in V \/ Reading[argv[i]].option
  BY <1>1 DEF Place
<1>5. FirstPlain(V) >= n
  BY <1>1, <1>2, <1>4, FirstPlainFacts
<1>6. FirstPlain(V) <= n
  BY <1>2, <1>3, <1>4, FirstPlainFacts
<1> QED
  BY <1>1, <1>5, <1>6, FirstPlainFacts

(* At the end of the options all of them have been read.                   *)
LEMMA EndRight ==
    ASSUME argv \in Seq(DOMAIN Reading), NEW V, Taken(V), Place(V), Accepted(V), Values(V),
           EndOfOptions
    PROVE  /\ pc' = "parsed" /\ errorDetails' = NULL /\ argv' = argv
           /\ WellFormed(V, Uses(V)) /\ Rest' = LeftOver(V)
           /\ opts' = Over(Settings(Uses(V)), Defaults)
<1>1. PICK n \in 1 .. Len(argv) + 1 : n = argNext
  BY DEF Place
<1>2. PICK m \in Nat : m = Len(argv) /\ DOMAIN argv = 1 .. m
  OBVIOUS
<1>3. n = m + 1 \/ (n <= m /\ ~Reading[argv[n]].option)
  BY <1>1, <1>2 DEF EndOfOptions, AtOption, Here
<1>4. FirstPlain(V) = n
  BY <1>1, EndIsHere
<1>5. \A u \in Uses(V) : Passed(u)
  <2>1. ASSUME NEW u \in Uses(V) PROVE Passed(u)
    <3>1. PICK i \in (1 .. FirstPlain(V) - 1) \ V : \E j \in DOMAIN Reading[argv[i]].names : u = AtUse(i, j, V)
      BY UsesAre
    <3>2. u.at[1] = i
      BY <3>1 DEF AtUse
    <3> QED
      BY <1>1, <1>4, <3>1, <3>2 DEF Passed
  <2> QED
    BY <2>1
<1>6. WellFormed(V, Uses(V))
  BY <1>1, <1>4, <1>5 DEF Accepted, Sound, WellFormed
<1>7. Rest' = LeftOver(V)
  <2>1. LeftOver(V) = IF n <= m /\ argv[n] = "--" THEN Tail(SubSeq(argv, n, m)) ELSE SubSeq(argv, n, m)
    <3>1. SubSeq(argv, n, m) # <<>> <=> n <= m
      <4>1. SubSeq(argv, n, m) \in Seq(DOMAIN Reading) /\ Len(SubSeq(argv, n, m)) = (m + 1) - n
        BY <1>1, <1>2
      <4>2. SubSeq(argv, n, m) # <<>> <=> Len(SubSeq(argv, n, m)) # 0
        BY <4>1, EmptySeq
      <4> QED
        BY <1>1, <1>2, <4>1, <4>2
    <3>2. n <= m => SubSeq(argv, n, m)[1] = argv[n]
      BY <1>1, <1>2
    <3> QED
      BY <1>2, <1>4, <3>1, <3>2 DEF LeftOver
  <2>2. argv' = argv /\ argNext' = IF n <= m /\ argv[n] = "--" THEN n + 1 ELSE n
    BY <1>1, <1>2 DEF EndOfOptions
  <2>3. n <= m => Tail(SubSeq(argv, n, m)) = SubSeq(argv, n + 1, m)
    BY <1>1, <1>2
  <2> QED
    BY <1>2, <2>1, <2>2, <2>3 DEF Rest
<1>8. opts = Over(Settings(Uses(V)), Defaults)
  <2> DEFINE F == UNION {SetBy(u) : u \in Uses(V)}
  <2>1. ASSUME NEW u \in Uses(V), NEW f \in SetBy(u) PROVE f \in DOMAIN Defaults
    <3>1. PICK i \in (1 .. FirstPlain(V) - 1) \ V : \E j \in DOMAIN Reading[argv[i]].names : u = AtUse(i, j, V)
      BY UsesAre
    <3>2. PICK j \in DOMAIN Reading[argv[i]].names : u = AtUse(i, j, V)
      BY <3>1
    <3>3. u.entries = Find(Reading[argv[i]].names[j])
      BY <3>2 DEF AtUse
    <3>4. \A k \in u.entries : k \in DOMAIN Entries
      BY <3>3, FindIs
    <3> QED
      BY <2>1, <3>4, DefaultsFacts, TableOfAg DEF SetBy
  <2>2. F \subseteq DOMAIN Defaults
    BY <2>1
  <2>3. ASSUME NEW f \in DOMAIN Defaults
        PROVE  opts[f] = IF f \in F THEN ValueOf(LastUse(f, Uses(V))) ELSE Defaults[f]
    <3>1. CASE Untouched(f, V)
      <4>1. f \notin F
        BY <1>5, <3>1 DEF Untouched
      <4> QED
        BY <3>1, <4>1 DEF Untouched
    <3>2. ASSUME NEW u \in Uses(V), SetLastBy(f, u, V)
          PROVE  f \in F /\ opts[f] = ValueOf(LastUse(f, Uses(V)))
      <4>1. f \in SetBy(u) /\ opts[f] = ValueOf(u) /\ \A v \in Uses(V) : Before(u, v) => f \notin SetBy(v)
        BY <1>5, <3>2 DEF SetLastBy
      <4>2. LastUse(f, Uses(V)) = u
        BY <4>1, LastUseIs
      <4> QED
        BY <4>1, <4>2
    <3> QED
      BY <3>1, <3>2 DEF Values
  <2>4. Settings(Uses(V)) = [f \in F |-> ValueOf(LastUse(f, Uses(V)))]
    BY DEF Settings
  <2> HIDE DEF F
  <2>5. Over(Settings(Uses(V)), Defaults) =
            [f \in DOMAIN Defaults |-> IF f \in F THEN ValueOf(LastUse(f, Uses(V))) ELSE Defaults[f]]
    BY <2>2, <2>4 DEF Over
  <2>6. opts = [f \in DOMAIN Defaults |-> opts[f]]
    BY DEF Values
  <2> QED
    BY <2>3, <2>5, <2>6
<1> QED
  BY <1>6, <1>7, <1>8 DEF EndOfOptions, Accepted

-----------------------------------------------------------------------------
(***************************************************************************)
(* The invariant of the program, and what follows from it.                 *)
(***************************************************************************)
(* The memory that opt_langs is given holds nothing but zeros.             *)
NoGarbage == \A heap \in Heaps : heap \cap ToSet(Langs) = {}

Read(V) ==
    /\ Taken(V) /\ asked = Reads(V, Uses(V))
    /\ pc \in {"start", "parse"} => Place(V) /\ Accepted(V) /\ Values(V)

IInv ==
    /\ argv \in Seq(DOMAIN Reading)
    /\ \E V : Read(V)
    /\ LastSettingWins

LEMMA StartsWithDefaults == ASSUME NoGarbage, Init PROVE opts = Defaults
<1>0. PICK heap \in Heaps : opts = Over([l \in ToSet(Langs) |-> l \in heap], Defaults)
  BY DEF Init
<1>1. \A l \in ToSet(Langs) : l \notin heap /\ l \in DOMAIN Defaults /\ Defaults[l] = FALSE
  BY DefaultsFacts DEF NoGarbage
<1>2. ToSet(Langs) \cup DOMAIN Defaults = DOMAIN Defaults
  BY <1>1
<1>3. \A f \in DOMAIN Defaults :
          (IF f \in ToSet(Langs) THEN f \in heap ELSE Defaults[f]) = Defaults[f]
  <2>1. ASSUME NEW f \in ToSet(Langs) PROVE (f \in heap) = Defaults[f]
    <3>1. (f \in heap) <=> FALSE
      BY <1>1, <2>1
    <3>2. (f \in heap) = FALSE
      BY <3>1
    <3> QED
      BY <1>1, <2>1, <3>2
  <2> QED
    BY <2>1, Zenon
<1>4. opts = [f \in DOMAIN Defaults |-> IF f \in ToSet(Langs) THEN f \in heap ELSE Defaults[f]]
  BY <1>0, <1>1, <1>2 DEF Over
<1>5. Defaults = [f \in DOMAIN Defaults |-> Defaults[f]]
  BY DefaultsFacts
<1> QED
  BY <1>3, <1>4, <1>5

LEMMA InitRight == ASSUME NoGarbage, Init PROVE IInv
<1>1. argv \in Seq(DOMAIN Reading)
  BY CommandLinesAssumption DEF Init
<1>2. PICK V \in SUBSET DOMAIN argv : AreTaken(V) /\ \E uses \in {Uses(V)} : asked = Reads(V, uses)
  BY DEF Init
<1>4. argNext = 1 /\ letter = 1 /\ errorDetails = NULL /\ pc = "start"
  BY DEF Init
<1>5. Place(V)
  <2>1. 1 \in V => 1 > 1
    BY <1>2, Zenon DEF AreTaken
  <2>2. 1 \notin V
    BY <2>1
  <2> QED
    BY <1>1, <1>4, <2>2 DEF Place
<1>6. \A u \in Uses(V) : ~Passed(u)
  <2>1. ASSUME NEW u \in Uses(V) PROVE ~Passed(u)
    <3>1. PICK i \in (1 .. FirstPlain(V) - 1) \ V : \E j \in DOMAIN Reading[argv[i]].names : u = AtUse(i, j, V)
      BY UsesAre
    <3>2. PICK j \in DOMAIN Reading[argv[i]].names : u = AtUse(i, j, V)
      BY <3>1
    <3>3. i \in 1 .. Len(argv)
      BY <1>1, FirstPlainFacts
    <3>4. j \in Int /\ j >= 1
      BY <1>1, <3>3, WordFacts
    <3>5. u.at[1] = i /\ u.at[2] = j
      BY <3>2 DEF AtUse
    <3> QED
      BY <1>4, <3>3, <3>4, <3>5 DEF Passed
  <2> QED
    BY <2>1
<1>7. Accepted(V)
  BY <1>4, <1>6 DEF Accepted
<1>8. opts = Defaults
  BY StartsWithDefaults
<1>9. Values(V)
  BY <1>6, <1>8, DefaultsFacts DEF Values, Untouched
<1> QED
  BY <1>1, <1>2, <1>4, <1>5, <1>7, <1>9 DEF IInv, Read, Taken, LastSettingWins

(* The steps of dropt_parse().                                             *)
LEMMA ParseRight == ASSUME IInv, Parse PROVE IInv'
<1>1. PICK V : Read(V)
  BY DEF IInv
<1>2. pc = "parse" /\ env' = env /\ asked' = asked
  BY DEF Parse, dropt_parse, Nameless, UnknownOption, BadArgument, SetOption, EndOfOptions, AtOption
<1>3. argv \in Seq(DOMAIN Reading) /\ Taken(V) /\ Place(V) /\ Accepted(V) /\ Values(V)
  BY <1>1, <1>2 DEF IInv, Read
<1>4. ASSUME argv' = argv
      PROVE  Taken(V)' /\ (asked = Reads(V, Uses(V)))'
  BY <1>1, <1>2, <1>3, <1>4, SameWords DEF Read
<1>5. asked.wellFormed = WellFormed(V, Uses(V))
      /\ (WellFormed(V, Uses(V)) => asked.settings = Settings(Uses(V)) /\ asked.words = LeftOver(V))
  <2>1. WellFormed(V, Uses(V)) \in BOOLEAN
    BY DEF WellFormed
  <2> QED
    BY <1>1, <2>1 DEF Read, Reads
<1>6. CASE SetOption
  <2>1. argv' = argv /\ pc' = "parse"
    BY <1>2, <1>6 DEF SetOption
  <2>2. Place(V)'
    BY <1>3, <1>6, OneMore
  <2>3. Accepted(V)' /\ Values(V)'
    BY <1>2, <1>3, <1>6, StoreRight
  <2> QED
    BY <1>3, <1>4, <2>1, <2>2, <2>3 DEF IInv, Read, LastSettingWins
<1>7. CASE Nameless \/ UnknownOption \/ BadArgument
  <2>1. pc' = "parsed" /\ errorDetails' # NULL /\ argv' = argv /\ ~WellFormed(V, Uses(V))
    BY <1>3, <1>7, ErrorRight
  <2>2. LastSettingWins'
    BY <1>2, <1>5, <2>1 DEF LastSettingWins
  <2> QED
    BY <1>3, <1>4, <2>1, <2>2 DEF IInv, Read
<1>8. CASE EndOfOptions
  <2>1. /\ pc' = "parsed" /\ errorDetails' = NULL /\ argv' = argv
        /\ WellFormed(V, Uses(V)) /\ Rest' = LeftOver(V)
        /\ opts' = Over(Settings(Uses(V)), Defaults)
    BY <1>3, <1>8, EndRight
  <2>2. Defaults' = Defaults
    BY <1>2 DEF Defaults, ColorByDefault
  <2>3. LastSettingWins'
    BY <1>2, <1>5, <2>1, <2>2 DEF LastSettingWins
  <2> QED
    BY <1>3, <1>4, <2>1, <2>3 DEF IInv, Read
<1> QED
  BY <1>6, <1>7, <1>8 DEF Parse, dropt_parse

LEMMA Invariant == ASSUME NoGarbage PROVE Spec => []IInv
<1>1. Init => IInv
  BY InitRight
<1>2. ASSUME IInv, [Next]_vars PROVE IInv'
  <2>1. PICK V : Read(V)
    BY <1>2 DEF IInv
  <2>2. ASSUME argv' = argv, asked' = asked, pc' \notin {"start", "parse", "parsed"} PROVE IInv'
    <3>1. Read(V)'
      BY <2>1, <2>2, SameWords DEF Read
    <3> QED
      BY <1>2, <2>2, <3>1 DEF IInv, LastSettingWins
  <2>3. CASE Parse
    BY <1>2, <2>3, ParseRight
  <2>4. CASE Begin
    <3>1. pc' = "parse" /\ opts' = opts /\ UNCHANGED <<argv, argNext, letter, errorDetails, env, asked>>
      BY <2>4 DEF Begin, Goto
    <3>2. Taken(V) /\ Place(V) /\ Accepted(V) /\ Values(V) /\ asked = Reads(V, Uses(V))
      BY <2>1, <2>4 DEF Read, Begin
    <3>3. Uses(V)' = Uses(V) /\ Taken(V)' /\ Reads(V, Uses(V))' = Reads(V, Uses(V)) /\ Defaults' = Defaults
      BY <3>1, <3>2, SameWords DEF Defaults, ColorByDefault
    <3>4. Place(V)'
      BY <3>1, <3>2 DEF Place, Here
    <3>5. \A u : Passed(u)' <=> Passed(u)
      BY <3>1 DEF Passed
    <3>6. Accepted(V)'
      BY <3>1, <3>2, <3>3, <3>5 DEF Accepted
    <3>7. Values(V)'
      BY <3>1, <3>2, <3>3, <3>5 DEF Values, Untouched, SetLastBy
    <3> QED
      BY <1>2, <3>1, <3>2, <3>3, <3>4, <3>6, <3>7 DEF IInv, Read, LastSettingWins
  <2>5. CASE UNCHANGED vars
    <3>1. UNCHANGED <<pc, argv, argNext, letter, opts, errorDetails, env, asked>>
      BY <2>5 DEF vars
    <3>2. Uses(V)' = Uses(V) /\ (Taken(V)' <=> Taken(V)) /\ Reads(V, Uses(V))' = Reads(V, Uses(V)) /\ Defaults' = Defaults
      BY <3>1, SameWords DEF Defaults, ColorByDefault
    <3>3. Place(V) => Place(V)'
      BY <3>1 DEF Place, Here
    <3>4. \A u : Passed(u)' <=> Passed(u)
      BY <3>1 DEF Passed
    <3>5. Accepted(V) => Accepted(V)'
      BY <3>1, <3>2, <3>4 DEF Accepted
    <3>6. Values(V) => Values(V)'
      BY <3>1, <3>2, <3>4 DEF Values, Untouched, SetLastBy
    <3>7. LastSettingWins'
      BY <1>2, <3>1, <3>2 DEF IInv, LastSettingWins, Rest
    <3> QED
      BY <1>2, <2>1, <3>1, <3>2, <3>3, <3>5, <3>6, <3>7 DEF IInv, Read
  <2>6. CASE \/ Usage \/ NoOutput \/ ParseError \/ ShowHelp \/ BadDirFilter \/ Version \/ BadFileRegex
             \/ NoPager \/ ListFileTypes \/ WhatFor \/ NoQuery \/ BadRegex
    <3>1. pc' = "exit" /\ argv' = argv /\ asked' = asked
      BY <2>6 DEF Usage, NoOutput, ParseError, ShowHelp, BadDirFilter, Version, BadFileRegex, NoPager,
                  ListFileTypes, WhatFor, NoQuery, BadRegex, Exit
    <3> QED
      BY <2>2, <3>1
  <2>7. CASE Handled \/ Filtered \/ LoadIgnores \/ Output \/ SetTarget \/ Search
    <3>1. /\ pc' \in {"handled", "filtered", "ignores", "output", "main", "search"}
          /\ argv' = argv /\ asked' = asked
      BY <2>7 DEF Handled, Filtered, LoadIgnores, Output, SetTarget, Search, Goto
    <3> QED
      BY <2>2, <3>1
  <2> QED
    BY <1>2, <2>3, <2>4, <2>5, <2>6, <2>7 DEF Next
<1> QED
  BY <1>1, <1>2, PTL DEF Spec

(* dropt_parse() accepts a command line exactly if no option of it is      *)
(* wrong, and every field then has what the last option for it says.       *)
THEOREM LastSettingCorrect == ASSUME NoGarbage PROVE Spec => []LastSettingWins
BY Invariant, PTL DEF IInv

-----------------------------------------------------------------------------
(***************************************************************************)
(* The values that options store.                                          *)
(***************************************************************************)
Typed(f, x) ==
    /\ f \in StringFields => x # NULL
    /\ f \in IntFields => x \in Int
    /\ f = "print_line_numbers" => x \in {0, 2}
    /\ f = "print_path" => x \in {"TOP", "EACH_LINE"}
    /\ f = "casing" => x \in {"SENSITIVE", "SMART", "INSENSITIVE"}

TypedSettings == \A f \in DOMAIN asked.settings : f \in DOMAIN Defaults /\ Typed(f, asked.settings[f])

LEMMA StoredTyped ==
    ASSUME NEW k \in DOMAIN Entries, NEW arg, Handle(k, arg) = "none"
    PROVE  Typed(Entries[k].field, Stored(k, arg))
<1>1. KindRight(Entries[k]) /\ Entries[k].handler \in Handlers
  BY EntryKinds, EntriesAssumption
<1>2. CASE Entries[k].handler = "const"
  <2>1. Stored(k, arg) = Entries[k].value
    BY <1>2 DEF Stored
  <2> QED
    BY <1>1, <1>2, <2>1 DEF KindRight, Typed
<1>3. CASE Entries[k].handler = "bool"
  BY <1>1, <1>3 DEF KindRight, Typed
<1>4. CASE Entries[k].handler = "int"
  <2>1. dropt_handle_int(k, arg) = "none" /\ Stored(k, arg) = Numerals[arg]
    BY <1>4 DEF Handle, Stored
  <2>2. CASE arg \in {NULL, ""}
    <3>1. dropt_handle_int(k, arg) = "insufficient_arguments"
      BY <2>2, Zenon DEF dropt_handle_int
    <3> QED
      BY <2>1, <3>1
  <2>3. CASE arg \notin DOMAIN Numerals \cup {NULL, ""}
    <3>1. dropt_handle_int(k, arg) = "mismatch"
      BY <2>3, Zenon DEF dropt_handle_int
    <3> QED
      BY <2>1, <3>1
  <2>4. CASE arg \in DOMAIN Numerals
    <3>1. Stored(k, arg) \in Int
      BY <2>1, <2>4, NumeralsAssumption
    <3> QED
      BY <1>1, <1>4, <3>1 DEF KindRight, Typed
  <2> QED
    BY <2>2, <2>3, <2>4
<1>5. CASE Entries[k].handler = "string"
  <2>1. dropt_handle_string(k, arg) = "none" /\ Stored(k, arg) = arg
    BY <1>5 DEF Handle, Stored
  <2>2. Stored(k, arg) # NULL
    BY <2>1 DEF dropt_handle_string
  <2> QED
    BY <1>1, <1>5, <2>2 DEF KindRight, Typed
<1> QED
  BY <1>1, <1>2, <1>3, <1>4, <1>5 DEF Handlers

(* So what the command line asks for has the type of its field.            *)
LEMMA SettingsTyped ==
    ASSUME argv \in Seq(DOMAIN Reading), NEW V, Taken(V), Place(V), Accepted(V), Values(V),
           EndOfOptions, NEW f \in DOMAIN Settings(Uses(V))
    PROVE  f \in DOMAIN Defaults /\ Typed(f, Settings(Uses(V))[f])
<1>1. FirstPlain(V) = argNext
  BY EndIsHere
<1>2. ASSUME NEW u \in Uses(V)
      PROVE  Passed(u) /\ \E name : u.entries = Find(name)
  <2>1. PICK i \in (1 .. FirstPlain(V) - 1) \ V : \E j \in DOMAIN Reading[argv[i]].names : u = AtUse(i, j, V)
    BY UsesAre
  <2>2. u.at[1] = i /\ \E name : u.entries = Find(name)
    BY <2>1 DEF AtUse
  <2> QED
    BY <1>1, <2>1, <2>2 DEF Passed, Place
<1>3. PICK w \in Uses(V) : f \in SetBy(w)
  BY DEF Settings
<1>4. f \in DOMAIN Defaults
  <2>1. PICK k \in w.entries : f = Entries[k].field
    BY <1>3, TableOfAg DEF SetBy
  <2>2. k \in DOMAIN Entries
    BY <1>2, <2>1, FindIs
  <2> QED
    BY <2>1, <2>2, DefaultsFacts
<1>5. PICK u \in Uses(V) : SetLastBy(f, u, V)
  BY <1>2, <1>3, <1>4 DEF Values, Untouched
<1>6. f \in SetBy(u) /\ LastUse(f, Uses(V)) = u /\ Sound(u)
  BY <1>2, <1>5, LastUseIs DEF SetLastBy, Accepted
<1>7. Settings(Uses(V))[f] = ValueOf(u)
  BY <1>6 DEF Settings
<1>8. PICK name : u.entries = Find(name)
  BY <1>2
<1>9. PICK k \in Find(name) : Handle(k, u.arg) = "none"
  BY <1>6, <1>8 DEF Sound
<1>10. PICK l \in Find(name) : f = Entries[l].field
  BY <1>6, <1>8, TableOfAg DEF SetBy
<1>11. PICK m \in Find(name) : ValueOf(u) = Stored(m, u.arg)
  BY <1>8, <1>9 DEF ValueOf
<1>12. f = Entries[m].field /\ Handle(m, u.arg) = "none" /\ m \in DOMAIN Entries
  BY <1>9, <1>10, SameEntries, FindIs
<1> QED
  BY <1>4, <1>7, <1>11, <1>12, StoredTyped

-----------------------------------------------------------------------------
(***************************************************************************)
(* What opts holds at each stage, in terms of what is asked for.           *)
(***************************************************************************)
Cells(o) == DOMAIN o = DOMAIN Defaults /\ o.print_line_numbers \in 0 .. 2

(* These fields are as they are asked for.                                 *)
AsAsked(F, o) == \A f \in F : o[f] = Get(f, Defaults[f])

(* The fields that HandleOptions() rewrites, and those the next stage does.*)
Rewritten ==
    {"search_all_files", "search_binary_files", "search_hidden_files", "print_count",
     "print_filename_only", "print_nonmatching_files", "log_level", "ackmate_dir_filter",
     "root_ignores", "path_to_ignore", "print_path", "print_line_numbers", "pager", "stats",
     "invert_match", "color", "match_files"}

Refined == Rewritten \cup {"casing", "file_search_regex"}

PathAsked ==
    IF On("opt_files_with_matches") \/ On("opt_files_without_matches") THEN "TOP"
    ELSE IF On("opt_nofilename") \/ On("opt_stats_only") THEN "NOTHING"
    ELSE IF On("opt_filename") THEN "DEFAULT" ELSE Get("print_path", "DEFAULT")

NumbersAsked ==
    IF On("opt_nofilename") THEN 0 ELSE IF On("opt_filename") THEN 1 ELSE Get("print_line_numbers", 1)

(* The form before the modes and the stream are seen to.                   *)
Unformed(o) ==
    /\ o.color <=> Get("color", ColorByDefault) /\ ~On("opt_invert_match")
    /\ o.print_path = PathAsked /\ o.print_line_numbers = NumbersAsked

AllFiles == On("search_all_files") \/ On("opt_all_types") \/ On("opt_unrestricted")

(* No pattern is from the files of ag.                                     *)
NoneOfAg(ignores) == \E S : ignores \in Seq(S) /\ \A e \in S : e.from # "ag"

PagerAsked == IF On("opt_nopager") THEN NULL ELSE Get("pager", NULL)

DirFilter == Get("ackmate_dir_filter_str", NULL)

AtHandled(o) ==
    /\ AsAsked(DOMAIN Defaults \ Rewritten, o) /\ Unformed(o)
    /\ o.pager = PagerAsked /\ (o.search_all_files <=> AllFiles) /\ NoneOfAg(o.root_ignores)
    /\ ~On("show_help") /\ DirFilter \notin Broken

FilesRight(o) ==
    /\ Types = {} =>
        IF Pattern = NULL THEN o.file_search_regex = NULL
        ELSE o.file_search_regex.pattern = Pattern
    /\ Cardinality(Types) = 1 /\ Pattern = NULL =>
        o.file_search_regex = [type |-> Langs[Min(Types)]]

AtFiltered(o) ==
    /\ AsAsked(DOMAIN Defaults \ Refined, o) /\ Unformed(o)
    /\ o.pager = PagerAsked /\ (o.search_all_files <=> AllFiles) /\ NoneOfAg(o.root_ignores)
    /\ o.casing = Get("casing", "SMART") /\ FilesRight(o)
    /\ ~On("show_help") /\ DirFilter \notin Broken /\ ~On("version") /\ Pattern \notin Broken

(* What the later stages keep.                                             *)
Settled(o) ==
    /\ o.casing = Get("casing", "SMART") /\ FilesRight(o)
    /\ AllFiles => NoneOfAg(o.root_ignores)
    /\ o.workers = Get("workers", 0) /\ ~AsksForInformation

(* There is a query if there must be one.                                  *)
QueryThere ==
    ~Given("file_search_regex_g") /\ ~On("opt_files_with_matches") => asked.words # <<>>

AtIgnores(o) == AsAsked(DOMAIN Defaults \ Refined, o) /\ Unformed(o) /\ Settled(o) /\ QueryThere

(* --nogroup is lost on --nobreak: one case of FormInDoubt.                *)
NogroupNobreak ==
    Form = "DEFAULT_EACH_LINE" /\ ~Get("print_break", TRUE) /\ ~AsksForStream

Formed(o) ==
    LET stream == AsksForStream
        fixed == On("ackmate") \/ On("vimgrep")
    IN  /\ o.color <=> Get("color", ColorByDefault) /\ ~On("opt_invert_match") /\ ~fixed
        /\ NumbersInDoubt \/ (o.print_line_numbers # 0 <=> NumbersWanted)
        /\ FormInDoubt \/
            /\ o.print_path = IF stream THEN "NOTHING" ELSE Form
            /\ o.print_break <=>
                    /\ ~stream /\ ~On("vimgrep")
                    /\ On("ackmate") \/ (Get("print_break", TRUE) /\ Form # "DEFAULT_EACH_LINE")

AtOutput(o) ==
    /\ Formed(o) /\ (o.search_stream <=> AsksForStream) /\ Settled(o) /\ QueryThere
    /\ AsAsked({"file_search_regex_g", "opt_files_with_matches"}, o)

AtMain(o) ==
    /\ Formed(o) /\ (o.search_stream <=> AsksForStream /\ Paths = <<>>) /\ Settled(o)
    /\ o.query = QueryAsked /\ o.query \notin {NULL, ""}
    /\ o.paths # <<>> /\ Len(o.paths) = Max({1, Len(Paths)})

(* From the end of dropt_parse() to the search.                            *)
Known ==
    /\ argv # <<>> /\ HasOutput /\ asked.wellFormed /\ TypedSettings
    /\ Rest = asked.words /\ asked.words \in Seq(DOMAIN Reading)

(* The search that is asked for.                                           *)
AtSearch(o) ==
    /\ Formed(o) /\ (o.search_stream <=> AsksForStream /\ Paths = <<>>) /\ FilesRight(o)
    /\ AllFiles => NoneOfAg(o.root_ignores)
    /\ ~AsksForInformation
    /\ o.query = QueryAsked /\ o.query \notin {NULL, ""}
    /\ o.paths # <<>> /\ Len(o.paths) = Max({1, Len(Paths)}) /\ o.workers_len > 0
    /\ o.casing = IF Get("casing", "SMART") # "SMART" THEN asked.settings.casing
                  ELSE IF o.query \in Capitals THEN "SENSITIVE" ELSE "INSENSITIVE"

LEMMA CellsThere ==
    /\ Rewritten \subseteq DOMAIN Defaults /\ Refined \subseteq DOMAIN Defaults
    /\ OffFields \subseteq DOMAIN Defaults /\ StringFields \cup IntFields \cup Enumerated \subseteq DOMAIN Defaults
    /\ {"print_break", "color", "group", "search_stream", "literal", "workers_len", "paths", "query", "re"}
            \subseteq DOMAIN Defaults
<1>1. {"root_ignores", "log_level", "workers_len", "paths"} \subseteq DOMAIN Defaults
  BY DefaultValues, InitialValues
<1>2. Refined \ {"root_ignores", "log_level"} \subseteq Stores \cup Derived
  BY DEF Refined, Rewritten, Stores, Derived, FlagFields, StringFields, IntFields, Enumerated
<1>3. {"print_break", "color", "group", "search_stream", "literal", "query", "re"} \subseteq Stores \cup Derived
  BY DEF Stores, Derived, FlagFields
<1> QED
  BY <1>1, <1>2, <1>3, DefaultValues DEF Refined, OffFields, Stores

LEMMA HandleOptionsIs ==
    ASSUME DOMAIN opts = DOMAIN Defaults, NEW o, o = HandleOptions(opts)
    PROVE  /\ DOMAIN o = DOMAIN Defaults
           /\ \A f \in DOMAIN Defaults \ Rewritten : o[f] = opts[f]
           /\ o.color = (opts.color /\ ~opts.opt_invert_match)
           /\ o.print_path = PrintPath(opts) /\ o.print_line_numbers = LineNumbers(opts)
           /\ o.search_all_files = (opts.search_all_files \/ opts.opt_all_types \/ opts.opt_unrestricted)
           /\ o.pager = IF opts.opt_nopager THEN NULL ELSE opts.pager
           /\ o.root_ignores = GivenIgnore(opts.ignore_dir_str) \o GivenIgnore(opts.ignore_str)
                                \o GivenIgnore(opts.path_ignore_str)
<1>1. DOMAIN opts = DOMAIN Defaults /\ \A f \in Rewritten : f \in DOMAIN opts
  BY CellsThere
<1>2. DOMAIN o = DOMAIN Defaults
  BY <1>1 DEF HandleOptions
<1>3. \A f \in DOMAIN Defaults \ Rewritten : o[f] = opts[f]
  BY <1>1 DEF HandleOptions, Rewritten
<1>4. o.color = (opts.color /\ ~opts.opt_invert_match)
  BY <1>1 DEF HandleOptions, Rewritten
<1>5. o.print_path = PrintPath(opts) /\ o.print_line_numbers = LineNumbers(opts)
  BY <1>1 DEF HandleOptions, Rewritten
<1>6. o.search_all_files = (opts.search_all_files \/ opts.opt_all_types \/ opts.opt_unrestricted)
  BY <1>1 DEF HandleOptions, Rewritten
<1>7. o.pager = IF opts.opt_nopager THEN NULL ELSE opts.pager
  BY <1>1 DEF HandleOptions, Rewritten
<1>8. o.root_ignores = GivenIgnore(opts.ignore_dir_str) \o GivenIgnore(opts.ignore_str)
                                \o GivenIgnore(opts.path_ignore_str)
  BY <1>1 DEF HandleOptions, Rewritten
<1> QED
  BY <1>2, <1>3, <1>4, <1>5, <1>6, <1>7, <1>8

(* Patterns that are joined are from where their parts are.                *)
LEMMA JoinedIgnores ==
    ASSUME NEW r, NEW s, NoneOfAg(r), NoneOfAg(s)
    PROVE  NoneOfAg(r \o s)
<1>1. PICK S : r \in Seq(S) /\ \A e \in S : e.from # "ag"
  BY DEF NoneOfAg
<1>2. PICK T : s \in Seq(T) /\ \A e \in T : e.from # "ag"
  BY DEF NoneOfAg
<1>3. r \in Seq(S \cup T) /\ s \in Seq(S \cup T)
  <2>1. PICK m \in Nat : r \in [1 .. m -> S]
    BY <1>1, SeqDef
  <2>2. PICK n \in Nat : s \in [1 .. n -> T]
    BY <1>2, SeqDef
  <2>3. r \in [1 .. m -> S \cup T] /\ s \in [1 .. n -> S \cup T]
    BY <2>1, <2>2
  <2> QED
    BY <2>3, SeqDef
<1>4. r \o s \in Seq(S \cup T) /\ \A e \in S \cup T : e.from # "ag"
  BY <1>1, <1>2, <1>3
<1> QED
  BY <1>4 DEF NoneOfAg

LEMMA SingleIgnores ==
    /\ NoneOfAg(<<>>) /\ \A name : NoneOfAg(Ignores("option", name)) /\ NoneOfAg(Ignores("git", name))
    /\ \A arg : NoneOfAg(GivenIgnore(arg))
<1>1. NoneOfAg(<<>>)
  <2>1. PICK r, S : r = <<>> /\ S = {[from |-> "git"]}
    OBVIOUS
  <2>2. r \in Seq(S) /\ \A e \in S : e.from # "ag"
    BY <2>1
  <2> QED
    BY <2>1, <2>2 DEF NoneOfAg
<1>2. ASSUME NEW from, from # "ag", NEW name PROVE NoneOfAg(Ignores(from, name))
  <2>1. Ignores(from, name) \in Seq({[from |-> from, name |-> name]})
    BY DEF Ignores
  <2>2. \A e \in {[from |-> from, name |-> name]} : e.from # "ag"
    BY <1>2
  <2> QED
    BY <2>1, <2>2 DEF NoneOfAg
<1>3. \A name : NoneOfAg(Ignores("option", name)) /\ NoneOfAg(Ignores("git", name))
  BY <1>2
<1> QED
  BY <1>1, <1>3 DEF GivenIgnore

(* opts when dropt_parse() has returned.                                   *)
LEMMA ParsedFields ==
    ASSUME TypedSettings, opts = Over(asked.settings, Defaults)
    PROVE  Cells(opts) /\ AsAsked(DOMAIN Defaults, opts)
<1>1. DOMAIN opts = DOMAIN Defaults
  BY DEF TypedSettings, Over
<1>2. AsAsked(DOMAIN Defaults, opts)
  BY DEF TypedSettings, Over, AsAsked, Get, Given
<1>3. "print_line_numbers" \in DOMAIN Defaults /\ Defaults["print_line_numbers"] = 1
  BY DefaultValues, CellsThere DEF Enumerated
<1>4. opts["print_line_numbers"] \in 0 .. 2
  BY <1>2, <1>3 DEF AsAsked, Get, Given, TypedSettings, Typed
<1> QED
  BY <1>1, <1>2, <1>4 DEF Cells

(* What is asked for of a field with a default.                            *)
LEMMA Asked ==
    ASSUME NEW F, NEW o, AsAsked(F, o)
    PROVE  /\ \A f \in OffFields \cup ToSet(Langs) : f \in F => o[f] = On(f)
           /\ \A f \in StringFields : f \in F => o[f] = Get(f, NULL)
           /\ "workers" \in F => o.workers = Get("workers", 0)
           /\ "print_line_numbers" \in F => o.print_line_numbers = Get("print_line_numbers", 1)
           /\ "print_path" \in F => o.print_path = Get("print_path", "DEFAULT")
           /\ "casing" \in F => o.casing = Get("casing", "DEFAULT")
           /\ "print_break" \in F => o.print_break = Get("print_break", TRUE)
           /\ "search_stream" \in F => o.search_stream = Get("search_stream", env.stdin_pipe)
           /\ "color" \in F => o.color = Get("color", ColorByDefault)
           /\ "group" \in F => o.group = Get("group", env.tty)
BY DefaultValues DEF AsAsked, On

-----------------------------------------------------------------------------
(***************************************************************************)
(* The stages.                                                             *)
(***************************************************************************)
LEMMA HandledRight ==
    ASSUME TypedSettings, opts = Over(asked.settings, Defaults), Handled, NEW o,
           o = HandleOptions(opts)
    PROVE  Cells(o) /\ AtHandled(o)
<1>1. Cells(opts) /\ AsAsked(DOMAIN Defaults, opts)
  BY ParsedFields
<1>2. /\ DOMAIN o = DOMAIN Defaults
      /\ \A f \in DOMAIN Defaults \ Rewritten : o[f] = opts[f]
      /\ o.color = (opts.color /\ ~opts.opt_invert_match)
      /\ o.print_path = PrintPath(opts) /\ o.print_line_numbers = LineNumbers(opts)
      /\ o.search_all_files = (opts.search_all_files \/ opts.opt_all_types \/ opts.opt_unrestricted)
      /\ o.pager = IF opts.opt_nopager THEN NULL ELSE opts.pager
      /\ o.root_ignores = GivenIgnore(opts.ignore_dir_str) \o GivenIgnore(opts.ignore_str)
                                \o GivenIgnore(opts.path_ignore_str)
  BY <1>1, HandleOptionsIs DEF Cells
<1>3. \A f \in OffFields : opts[f] = On(f)
  BY <1>1, CellsThere, DefaultValues DEF AsAsked, On
<1>4. {"opt_invert_match", "opt_all_types", "opt_unrestricted", "search_all_files", "opt_nopager",
       "opt_files_with_matches", "opt_files_without_matches", "opt_nofilename", "opt_stats_only",
       "opt_filename", "show_help"} \subseteq OffFields
  BY DEF OffFields, FlagFields
<1>5. /\ opts.print_line_numbers = Get("print_line_numbers", 1)
      /\ opts.print_path = Get("print_path", "DEFAULT")
      /\ opts.color = Get("color", ColorByDefault)
      /\ opts.pager = Get("pager", NULL) /\ opts.ackmate_dir_filter_str = DirFilter
  <2>1. {"print_line_numbers", "print_path", "color", "pager", "ackmate_dir_filter_str"} \subseteq DOMAIN Defaults
    BY CellsThere DEF Enumerated, StringFields
  <2>2. "pager" \in StringFields /\ "ackmate_dir_filter_str" \in StringFields
    BY DEF StringFields
  <2> QED
    BY <1>1, <2>1, <2>2, Asked DEF DirFilter
<1>6. AsAsked(DOMAIN Defaults \ Rewritten, o)
  BY <1>1, <1>2 DEF AsAsked
<1>7. Unformed(o)
  BY <1>2, <1>3, <1>4, <1>5 DEF Unformed, PrintPath, LineNumbers, PathAsked, NumbersAsked
<1>8. o.pager = PagerAsked /\ (o.search_all_files <=> AllFiles)
  BY <1>2, <1>3, <1>4, <1>5 DEF PagerAsked, AllFiles
<1>9. NoneOfAg(o.root_ignores)
  BY <1>2, JoinedIgnores, SingleIgnores
<1>10. ~On("show_help") /\ DirFilter \notin Broken
  BY <1>3, <1>4, <1>5 DEF Handled
<1>11. o.print_line_numbers \in 0 .. 2
  BY <1>1, <1>2 DEF Cells, LineNumbers
<1> QED
  BY <1>2, <1>6, <1>7, <1>8, <1>9, <1>10, <1>11 DEF Cells, AtHandled

(* The file types that are on, and the expression for names.               *)
LEMMA PatternRight ==
    ASSUME TypedSettings, AsAsked(DOMAIN Defaults \ Rewritten, opts)
    PROVE  /\ LangsSet = Types /\ FileRegex = Pattern
           /\ accepts_query <=> ~Given("file_search_regex_g")
<1>1. {"file_search_regex_g", "file_search_regex_G"} \subseteq DOMAIN Defaults \ Rewritten
  BY CellsThere DEF StringFields, Rewritten
<1>2. {"file_search_regex_g", "file_search_regex_G"} \subseteq StringFields
  BY DEF StringFields
<1>3. /\ opts.file_search_regex_g = Get("file_search_regex_g", NULL)
      /\ opts.file_search_regex_G = Get("file_search_regex_G", NULL)
  BY <1>1, <1>2, Asked
<1>4. Given("file_search_regex_g") => asked.settings["file_search_regex_g"] # NULL
  BY <1>2 DEF TypedSettings, Typed, Given
<1>5. accepts_query <=> ~Given("file_search_regex_g")
  BY <1>3, <1>4 DEF accepts_query, Get
<1>6. FileRegex = Pattern
  BY <1>3, <1>5 DEF FileRegex, Pattern, Get
<1>7. \A lang \in ToSet(Langs) : lang \in DOMAIN Defaults \ Rewritten
  <2>1. ToSet(Langs) \subseteq DOMAIN Defaults
    BY DefaultValues
  <2>2. \A f \in Rewritten : f \in Stores \cup DOMAIN Initialised \cup Derived
    BY InitialValues DEF Rewritten, Stores, Derived, FlagFields, StringFields, IntFields, Enumerated
  <2> QED
    BY <2>1, <2>2, EntryKinds, LangsAssumption
<1>8. \A i \in DOMAIN Langs : opts[Langs[i]] = On(Langs[i])
  <2>1. ASSUME NEW i \in DOMAIN Langs PROVE Langs[i] \in ToSet(Langs)
    BY DEF ToSet
  <2> QED
    BY <1>7, <2>1, DefaultValues DEF AtHandled, AsAsked, On
<1> QED
  BY <1>5, <1>6, <1>8 DEF LangsSet, Types

LEMMA FilteredRight ==
    ASSUME TypedSettings, Cells(opts), AtHandled(opts), Filtered, NEW o,
           o = [opts EXCEPT !.casing = Casing(opts), !.file_search_regex = FileFilter]
    PROVE  Cells(o) /\ AtFiltered(o)
<1>1. /\ DOMAIN o = DOMAIN Defaults /\ \A f \in DOMAIN Defaults \ {"casing", "file_search_regex"} : o[f] = opts[f]
      /\ o.casing = Casing(opts) /\ o.file_search_regex = FileFilter
  BY CellsThere DEF Cells, Refined
<1>2. {"print_line_numbers", "print_path", "color", "pager", "search_all_files", "root_ignores"}
            \subseteq DOMAIN Defaults \ {"casing", "file_search_regex"}
  BY CellsThere DEF Rewritten
<1>3. AsAsked(DOMAIN Defaults \ Refined, o)
  BY <1>1 DEF AtHandled, AsAsked, Refined
<1>4. Unformed(o)
  BY <1>1, <1>2 DEF AtHandled, Unformed
<1>5. o.pager = PagerAsked /\ (o.search_all_files <=> AllFiles) /\ NoneOfAg(o.root_ignores)
  BY <1>1, <1>2 DEF AtHandled
<1>6. o.casing = Get("casing", "SMART")
  <2>1. opts.casing = Get("casing", "DEFAULT")
    <3>1. "casing" \in DOMAIN Defaults \ Rewritten
      BY CellsThere DEF Enumerated, Rewritten
    <3> QED
      BY <3>1, Asked DEF AtHandled
  <2> QED
    BY <1>1, <2>1 DEF Casing, Get, Given, TypedSettings, Typed
<1>7. LangsSet = Types /\ FileRegex = Pattern
  BY PatternRight DEF AtHandled
<1>8. FilesRight(o)
  <2>1. Types = {} /\ Pattern = NULL => o.file_search_regex = NULL
    BY <1>1, <1>7, Zenon DEF FileFilter
  <2>2. Types = {} /\ Pattern # NULL => o.file_search_regex.pattern = Pattern
    <3>1. ASSUME Types = {}, Pattern # NULL
          PROVE  o.file_search_regex =
                    [pattern |-> FileRegex, word |-> opts.word_regexp,
                     icase |-> IgnoresCase(Casing(opts), FileRegex)]
      BY <1>1, <1>7, <3>1, Zenon DEF FileFilter
    <3> QED
      BY <1>7, <3>1
  <2>3. Types # {} => o.file_search_regex = [type |-> Langs[Min(Types)]]
    BY <1>1, <1>7, Zenon DEF FileFilter
  <2>4. Cardinality(Types) = 1 => Types # {}
    BY FS_EmptySet
  <2> QED
    BY <2>1, <2>2, <2>3, <2>4 DEF FilesRight
<1>9. ~On("version") /\ Pattern \notin Broken
  <2>1. "version" \in DOMAIN Defaults \ Rewritten /\ "version" \in OffFields
    BY CellsThere DEF OffFields, FlagFields, Rewritten
  <2>2. opts.version = On("version")
    BY <2>1, DefaultValues DEF AtHandled, AsAsked, On
  <2> QED
    BY <1>7, <2>2 DEF Filtered
<1> QED
  BY <1>1, <1>2, <1>3, <1>4, <1>5, <1>6, <1>8, <1>9 DEF AtFiltered, AtHandled, Cells

(* Information is asked for exactly if the program ends with it.           *)
LEMMA InformationRight ==
    ASSUME TypedSettings, HasOutput, Cells(opts), AtFiltered(opts)
    PROVE  /\ NoPager => ~AsksForInformation
           /\ ListFileTypes => AsksForInformation
           /\ Paged /\ ~opts.list_file_types => ~AsksForInformation
<1>1. opts.list_file_types = On("list_file_types")
  <2>1. "list_file_types" \in DOMAIN Defaults \ Refined /\ "list_file_types" \in OffFields
    BY CellsThere DEF OffFields, FlagFields, Rewritten, Refined
  <2> QED
    BY <2>1, DefaultValues DEF AtFiltered, AsAsked, On
<1>2. ~On("show_help") /\ DirFilter \notin Broken /\ ~On("version") /\ Pattern \notin Broken
  BY DEF AtFiltered
<1>3. opts.pager = NULL <=> ~Given("pager") \/ On("opt_nopager")
  <2>1. "pager" \in StringFields
    BY DEF StringFields
  <2>2. opts.pager = PagerAsked
    BY DEF AtFiltered
  <2> QED
    BY <2>1, <2>2 DEF PagerAsked, Get, Given, TypedSettings, Typed
<1>4. AsksForInformation <=> On("list_file_types") /\ (env.forks \/ ~Given("pager") \/ On("opt_nopager"))
  BY <1>2 DEF AsksForInformation, DirFilter
<1> QED
  BY <1>1, <1>3, <1>4 DEF NoPager, ListFileTypes, Paged

(* Whether there must be a query.                                          *)
LEMMA NeedsRight ==
    ASSUME TypedSettings, NEW F, AsAsked(F, opts),
           {"file_search_regex_g", "opt_files_with_matches"} \subseteq F
    PROVE  /\ accepts_query <=> ~Given("file_search_regex_g")
           /\ needs_query <=> ~Given("file_search_regex_g") /\ ~On("opt_files_with_matches")
<1>1. "opt_files_with_matches" \in OffFields /\ "file_search_regex_g" \in StringFields
  BY DEF OffFields, FlagFields, StringFields
<1>2. opts.opt_files_with_matches = On("opt_files_with_matches")
  BY <1>1, DefaultValues DEF AsAsked, On
<1>3. opts.file_search_regex_g = Get("file_search_regex_g", NULL)
  BY <1>1, DefaultValues DEF AsAsked
<1>4. accepts_query <=> ~Given("file_search_regex_g")
  BY <1>1, <1>3 DEF accepts_query, Get, Given, TypedSettings, Typed
<1> QED
  BY <1>2, <1>4 DEF needs_query

LEMMA IgnoresRight ==
    ASSUME Known, Cells(opts), AtFiltered(opts), LoadIgnores, NEW o,
           o = [opts EXCEPT !.root_ignores =
                    @ \o (IF env.home /\ ~opts.search_all_files THEN Ignores("ag", "$HOME/.agignore")
                          ELSE <<>>)
                      \o (IF ~opts.skip_vcs_ignores /\ env.forks THEN GitIgnores ELSE <<>>)]
    PROVE  Cells(o) /\ AtIgnores(o)
<1>1. /\ DOMAIN o = DOMAIN Defaults /\ \A f \in DOMAIN Defaults \ {"root_ignores"} : o[f] = opts[f]
      /\ o.root_ignores = opts.root_ignores
            \o (IF env.home /\ ~opts.search_all_files THEN Ignores("ag", "$HOME/.agignore") ELSE <<>>)
            \o (IF ~opts.skip_vcs_ignores /\ env.forks THEN GitIgnores ELSE <<>>)
  BY CellsThere DEF Cells, Rewritten
<1>2. {"print_line_numbers", "print_path", "color", "casing", "file_search_regex"}
            \subseteq DOMAIN Defaults \ {"root_ignores"}
  BY CellsThere DEF Rewritten, Refined
<1>3. AsAsked(DOMAIN Defaults \ Refined, o)
  <2>1. "root_ignores" \in Refined
    BY DEF Refined, Rewritten
  <2> QED
    BY <1>1, <2>1 DEF AtFiltered, AsAsked
<1>4. Unformed(o)
  BY <1>1, <1>2 DEF AtFiltered, Unformed
<1>5. AllFiles => NoneOfAg(o.root_ignores)
  <2>1. NoneOfAg(GitIgnores)
    <3>1. \E name : GitIgnores = Ignores("git", name)
      BY DEF GitIgnores
    <3> QED
      BY <3>1, SingleIgnores
  <2>2. NoneOfAg(IF ~opts.skip_vcs_ignores /\ env.forks THEN GitIgnores ELSE <<>>)
    BY <2>1, SingleIgnores
  <2>3. ASSUME AllFiles PROVE NoneOfAg(o.root_ignores)
    <3>1. opts.search_all_files /\ NoneOfAg(opts.root_ignores)
      BY <2>3 DEF AtFiltered
    <3>2. o.root_ignores = opts.root_ignores \o <<>>
            \o (IF ~opts.skip_vcs_ignores /\ env.forks THEN GitIgnores ELSE <<>>)
      BY <1>1, <3>1, Zenon
    <3>3. NoneOfAg(opts.root_ignores \o <<>>)
      BY <3>1, JoinedIgnores, SingleIgnores, Zenon
    <3> QED
      BY <2>2, <3>2, <3>3, JoinedIgnores, Zenon
  <2> QED
    BY <2>3
<1>6. o.workers = Get("workers", 0)
  <2>1. "workers" \in DOMAIN Defaults \ Refined
    BY CellsThere DEF IntFields, Refined, Rewritten
  <2> QED
    BY <1>3, <2>1, DefaultValues DEF AsAsked
<1>7. ~AsksForInformation
  BY InformationRight DEF LoadIgnores, Known
<1>8. FilesRight(o) /\ o.casing = Get("casing", "SMART")
  BY <1>1, <1>2 DEF AtFiltered, FilesRight
<1>9. QueryThere
  <2>1. {"file_search_regex_g", "opt_files_with_matches"} \subseteq DOMAIN Defaults \ Refined
    BY CellsThere DEF StringFields, OffFields, FlagFields, Refined, Rewritten
  <2>2. needs_query <=> ~Given("file_search_regex_g") /\ ~On("opt_files_with_matches")
    BY <2>1, NeedsRight DEF AtFiltered, Known
  <2> QED
    BY <2>2 DEF QueryThere, LoadIgnores, Known
<1> QED
  BY <1>1, <1>2, <1>3, <1>4, <1>5, <1>6, <1>7, <1>8, <1>9 DEF AtIgnores, Settled, Cells

(* The modes, one after the other.                                         *)
Sizes == {"after", "before", "context", "width", "max_matches_per_file"}

Fixed == {"color", "print_break", "group", "search_stream", "print_path", "print_line_numbers"}

LEMMA SizedKeeps ==
    ASSUME DOMAIN opts = DOMAIN Defaults
    PROVE  DOMAIN Sized(opts) = DOMAIN Defaults
           /\ \A f \in DOMAIN Defaults \ Sizes : Sized(opts)[f] = opts[f]
BY DEF Sized, Sizes

LEMMA AckmateKeeps ==
    ASSUME NEW o, DOMAIN o = DOMAIN Defaults
    PROVE  /\ DOMAIN Ackmate(o) = DOMAIN Defaults
           /\ \A f \in DOMAIN Defaults \ {"color", "print_break", "group", "search_stream"} : Ackmate(o)[f] = o[f]
           /\ Ackmate(o).color = IF o.ackmate THEN FALSE ELSE o.color
           /\ Ackmate(o).print_break = IF o.ackmate THEN TRUE ELSE o.print_break
           /\ Ackmate(o).group = IF o.ackmate THEN TRUE ELSE o.group
           /\ Ackmate(o).search_stream = IF o.ackmate THEN FALSE ELSE o.search_stream
BY CellsThere DEF Ackmate

LEMMA VimgrepKeeps ==
    ASSUME NEW o, DOMAIN o = DOMAIN Defaults
    PROVE  /\ DOMAIN Vimgrep(o) = DOMAIN Defaults
           /\ \A f \in DOMAIN Defaults \ Fixed : Vimgrep(o)[f] = o[f]
           /\ Vimgrep(o).print_line_numbers = o.print_line_numbers
           /\ Vimgrep(o).color = IF o.vimgrep THEN FALSE ELSE o.color
           /\ Vimgrep(o).print_break = IF o.vimgrep THEN FALSE ELSE o.print_break
           /\ Vimgrep(o).group = IF o.vimgrep THEN TRUE ELSE o.group
           /\ Vimgrep(o).search_stream = IF o.vimgrep THEN FALSE ELSE o.search_stream
           /\ Vimgrep(o).print_path = IF o.vimgrep THEN "NOTHING" ELSE o.print_path
BY CellsThere DEF Vimgrep, Fixed, Enumerated

LEMMA ParallelKeeps ==
    ASSUME NEW o, DOMAIN o = DOMAIN Defaults
    PROVE  /\ DOMAIN Parallel(o) = DOMAIN Defaults
           /\ \A f \in DOMAIN Defaults \ {"search_stream"} : Parallel(o)[f] = o[f]
           /\ Parallel(o).search_stream = IF o.parallel THEN FALSE ELSE o.search_stream
BY CellsThere DEF Parallel

LEMMA GroupedKeeps ==
    ASSUME NEW o, DOMAIN o = DOMAIN Defaults
    PROVE  /\ DOMAIN Grouped(o) = DOMAIN Defaults
           /\ \A f \in DOMAIN Defaults \ {"print_path", "print_break"} : Grouped(o)[f] = o[f]
           /\ Grouped(o).print_path =
                IF o.print_path = "DEFAULT" /\ o.print_break /\ ~o.group THEN "DEFAULT_EACH_LINE"
                ELSE o.print_path
           /\ Grouped(o).print_break =
                IF o.print_path = "DEFAULT" /\ o.print_break /\ ~o.group THEN FALSE ELSE o.print_break
BY CellsThere DEF Grouped, Enumerated

LEMMA StreamedKeeps ==
    ASSUME NEW o, DOMAIN o = DOMAIN Defaults
    PROVE  /\ DOMAIN Streamed(o) = DOMAIN Defaults
           /\ \A f \in DOMAIN Defaults \ {"print_break", "print_path", "print_line_numbers"} : Streamed(o)[f] = o[f]
           /\ Streamed(o).print_break = IF o.search_stream THEN FALSE ELSE o.print_break
           /\ Streamed(o).print_path = IF o.search_stream THEN "NOTHING" ELSE o.print_path
           /\ Streamed(o).print_line_numbers =
                IF o.search_stream THEN IF o.print_line_numbers = 2 THEN 2 ELSE 0
                ELSE o.print_line_numbers
BY CellsThere DEF Streamed, Enumerated

LEMMA OutputRight ==
    ASSUME Known, Cells(opts), AtIgnores(opts), NEW o,
           o = Streamed(Grouped(Parallel(Vimgrep(Ackmate(Sized(opts))))))
    PROVE  Cells(o) /\ AtOutput(o)
<1>1. PICK p : p = Sized(opts)
  OBVIOUS
<1>2. /\ DOMAIN p = DOMAIN Defaults
      /\ \A f \in DOMAIN Defaults \ Sizes : p[f] = opts[f]
  BY <1>1, SizedKeeps DEF Cells
<1>3. PICK q : q = Vimgrep(Ackmate(p))
  OBVIOUS
<1>4. PICK r : r = Grouped(Parallel(q))
  OBVIOUS
<1>5. o = Streamed(r)
  BY <1>1, <1>3, <1>4
<1>6. "ackmate" \notin Fixed /\ "vimgrep" \notin Fixed /\ "parallel" \notin Fixed
      /\ {"ackmate", "vimgrep", "parallel", "print_path", "print_line_numbers"} \subseteq DOMAIN Defaults
  BY CellsThere DEF Fixed, Enumerated, OffFields, FlagFields
<1>7. /\ DOMAIN q = DOMAIN Defaults /\ \A f \in DOMAIN Defaults \ Fixed : q[f] = p[f]
      /\ q.print_line_numbers = p.print_line_numbers
      /\ q.color = IF p.vimgrep \/ p.ackmate THEN FALSE ELSE p.color
      /\ q.print_break = IF p.vimgrep THEN FALSE ELSE IF p.ackmate THEN TRUE ELSE p.print_break
      /\ q.group = IF p.vimgrep \/ p.ackmate THEN TRUE ELSE p.group
      /\ q.search_stream = IF p.vimgrep \/ p.ackmate THEN FALSE ELSE p.search_stream
      /\ q.print_path = IF p.vimgrep THEN "NOTHING" ELSE p.print_path
  <2>1. PICK a : a = Ackmate(p)
    OBVIOUS
  <2>2. /\ DOMAIN a = DOMAIN Defaults
        /\ \A f \in DOMAIN Defaults \ {"color", "print_break", "group", "search_stream"} : a[f] = p[f]
        /\ a.color = IF p.ackmate THEN FALSE ELSE p.color
        /\ a.print_break = IF p.ackmate THEN TRUE ELSE p.print_break
        /\ a.group = IF p.ackmate THEN TRUE ELSE p.group
        /\ a.search_stream = IF p.ackmate THEN FALSE ELSE p.search_stream
    BY <1>2, <2>1, AckmateKeeps
  <2>3. a.vimgrep = p.vimgrep /\ a.print_path = p.print_path
        /\ a.print_line_numbers = p.print_line_numbers
    BY <1>6, <2>2
  <2>4. /\ DOMAIN q = DOMAIN Defaults /\ \A f \in DOMAIN Defaults \ Fixed : q[f] = a[f]
        /\ q.print_line_numbers = a.print_line_numbers
        /\ q.color = IF a.vimgrep THEN FALSE ELSE a.color
        /\ q.print_break = IF a.vimgrep THEN FALSE ELSE a.print_break
        /\ q.group = IF a.vimgrep THEN TRUE ELSE a.group
        /\ q.search_stream = IF a.vimgrep THEN FALSE ELSE a.search_stream
        /\ q.print_path = IF a.vimgrep THEN "NOTHING" ELSE a.print_path
    BY <1>3, <2>1, <2>2, VimgrepKeeps
  <2>5. \A f \in DOMAIN Defaults \ Fixed : a[f] = p[f]
    BY <2>2 DEF Fixed
  <2> QED
    BY <2>2, <2>3, <2>4, <2>5
<1>8. /\ DOMAIN r = DOMAIN Defaults /\ \A f \in DOMAIN Defaults \ Fixed : r[f] = q[f]
      /\ r.color = q.color /\ r.print_line_numbers = q.print_line_numbers
      /\ r.search_stream = IF q.parallel THEN FALSE ELSE q.search_stream
      /\ r.print_path =
            IF q.print_path = "DEFAULT" /\ q.print_break /\ ~q.group THEN "DEFAULT_EACH_LINE"
            ELSE q.print_path
      /\ r.print_break =
            IF q.print_path = "DEFAULT" /\ q.print_break /\ ~q.group THEN FALSE ELSE q.print_break
  <2>1. PICK s : s = Parallel(q)
    OBVIOUS
  <2>2. /\ DOMAIN s = DOMAIN Defaults
        /\ \A f \in DOMAIN Defaults \ {"search_stream"} : s[f] = q[f]
        /\ s.search_stream = IF q.parallel THEN FALSE ELSE q.search_stream
    BY <1>7, <2>1, ParallelKeeps
  <2>3. s.print_path = q.print_path /\ s.print_break = q.print_break /\ s.group = q.group
        /\ s.color = q.color /\ s.print_line_numbers = q.print_line_numbers
    BY <1>6, <2>2, CellsThere
  <2>4. /\ DOMAIN r = DOMAIN Defaults
        /\ \A f \in DOMAIN Defaults \ {"print_path", "print_break"} : r[f] = s[f]
        /\ r.print_path =
                IF s.print_path = "DEFAULT" /\ s.print_break /\ ~s.group THEN "DEFAULT_EACH_LINE"
                ELSE s.print_path
        /\ r.print_break =
                IF s.print_path = "DEFAULT" /\ s.print_break /\ ~s.group THEN FALSE ELSE s.print_break
    BY <1>4, <2>1, <2>2, GroupedKeeps
  <2>5. r.color = s.color /\ r.print_line_numbers = s.print_line_numbers
        /\ r.search_stream = s.search_stream
    BY <1>6, <2>4, CellsThere
  <2>6. \A f \in DOMAIN Defaults \ Fixed : r[f] = q[f]
    BY <2>2, <2>4 DEF Fixed
  <2> QED
    BY <2>2, <2>3, <2>4, <2>5, <2>6
<1>9. /\ DOMAIN o = DOMAIN Defaults /\ \A f \in DOMAIN Defaults \ Fixed : o[f] = r[f]
      /\ o.color = r.color /\ o.search_stream = r.search_stream
      /\ o.print_break = IF r.search_stream THEN FALSE ELSE r.print_break
      /\ o.print_path = IF r.search_stream THEN "NOTHING" ELSE r.print_path
      /\ o.print_line_numbers =
            IF r.search_stream THEN IF r.print_line_numbers = 2 THEN 2 ELSE 0
            ELSE r.print_line_numbers
  <2>1. /\ DOMAIN o = DOMAIN Defaults
        /\ \A f \in DOMAIN Defaults \ {"print_break", "print_path", "print_line_numbers"} : o[f] = r[f]
        /\ o.print_break = IF r.search_stream THEN FALSE ELSE r.print_break
        /\ o.print_path = IF r.search_stream THEN "NOTHING" ELSE r.print_path
        /\ o.print_line_numbers =
                IF r.search_stream THEN IF r.print_line_numbers = 2 THEN 2 ELSE 0
                ELSE r.print_line_numbers
    <3>1. DOMAIN r = DOMAIN Defaults
      BY <1>8
    <3>2. /\ DOMAIN Streamed(r) = DOMAIN Defaults
          /\ \A f \in DOMAIN Defaults \ {"print_break", "print_path", "print_line_numbers"} : Streamed(r)[f] = r[f]
          /\ Streamed(r).print_break = IF r.search_stream THEN FALSE ELSE r.print_break
          /\ Streamed(r).print_path = IF r.search_stream THEN "NOTHING" ELSE r.print_path
          /\ Streamed(r).print_line_numbers =
                IF r.search_stream THEN IF r.print_line_numbers = 2 THEN 2 ELSE 0
                ELSE r.print_line_numbers
      BY ONLY <3>1, StreamedKeeps
    <3> QED
      BY <1>5, <3>2, Zenon
  <2>2. "color" \in DOMAIN Defaults /\ "search_stream" \in DOMAIN Defaults
    BY CellsThere
  <2>3. o.color = r.color /\ o.search_stream = r.search_stream
    BY <2>1, <2>2
  <2>4. \A f \in DOMAIN Defaults \ Fixed : o[f] = r[f]
    BY <2>1 DEF Fixed
  <2> QED
    BY <2>1, <2>3, <2>4
<1>10. \A f \in DOMAIN Defaults \ (Sizes \cup Fixed) : o[f] = opts[f]
  BY <1>2, <1>7, <1>8, <1>9
<1>11. /\ p.ackmate = On("ackmate") /\ p.vimgrep = On("vimgrep") /\ p.parallel = On("parallel")
       /\ q.parallel = p.parallel
  <2>1. {"ackmate", "vimgrep", "parallel"} \subseteq OffFields \cap (DOMAIN Defaults \ Refined) \cap (DOMAIN Defaults \ Sizes)
    BY CellsThere DEF OffFields, FlagFields, Refined, Rewritten, Sizes
  <2>2. \A f \in {"ackmate", "vimgrep", "parallel"} : opts[f] = On(f)
    BY <2>1, DefaultValues DEF AtIgnores, AsAsked, On
  <2> QED
    BY <1>2, <1>6, <1>7, <2>1, <2>2
<1>12. /\ p.print_break = Get("print_break", TRUE) /\ p.group = Get("group", env.tty)
       /\ p.search_stream = Get("search_stream", env.stdin_pipe)
       /\ p.color <=> Get("color", ColorByDefault) /\ ~On("opt_invert_match")
       /\ p.print_path = PathAsked /\ p.print_line_numbers = NumbersAsked
  <2>1. {"print_break", "group", "search_stream"} \subseteq DOMAIN Defaults \ Refined
    BY CellsThere DEF Refined, Rewritten
  <2>2. {"print_break", "group", "search_stream", "color", "print_path", "print_line_numbers"}
            \subseteq DOMAIN Defaults \ Sizes
    BY <1>6, CellsThere DEF Sizes
  <2>3. /\ opts.print_break = Get("print_break", TRUE) /\ opts.group = Get("group", env.tty)
        /\ opts.search_stream = Get("search_stream", env.stdin_pipe)
    BY <2>1, DefaultValues DEF AtIgnores, AsAsked
  <2>4. /\ opts.color <=> Get("color", ColorByDefault) /\ ~On("opt_invert_match")
        /\ opts.print_path = PathAsked /\ opts.print_line_numbers = NumbersAsked
    BY DEF AtIgnores, Unformed
  <2> QED
    BY <1>2, <2>2, <2>3, <2>4
<1>13. o.search_stream <=> AsksForStream
  BY <1>7, <1>8, <1>9, <1>11, <1>12 DEF AsksForStream
<1>14. o.color <=> Get("color", ColorByDefault) /\ ~On("opt_invert_match") /\ ~(On("ackmate") \/ On("vimgrep"))
  BY <1>7, <1>8, <1>9, <1>11, <1>12
<1>15. o.print_line_numbers =
            IF AsksForStream THEN IF NumbersAsked = 2 THEN 2 ELSE 0 ELSE NumbersAsked
  BY <1>7, <1>8, <1>9, <1>12, <1>13
<1>16. Given("print_line_numbers") => asked.settings["print_line_numbers"] \in {0, 2}
  BY DEF Known, TypedSettings, Typed, Given
<1>17. NumbersInDoubt \/ (o.print_line_numbers # 0 <=> NumbersWanted)
  <2>1. o.print_line_numbers # 0 <=>
            /\ ~On("opt_nofilename")
            /\ IF On("opt_filename") THEN ~AsksForStream
               ELSE Get("print_line_numbers", IF AsksForStream THEN 0 ELSE 1) # 0
    BY <1>15, <1>16 DEF NumbersAsked, Get
  <2> QED
    BY <2>1 DEF NumbersInDoubt, NumbersWanted, Get
<1>18. o.print_line_numbers \in 0 .. 2
  BY <1>15, <1>16 DEF NumbersAsked, Get
<1>19. Given("print_path") => asked.settings["print_path"] \in {"TOP", "EACH_LINE"}
  BY DEF Known, TypedSettings, Typed, Given
<1>20. q.print_path = IF On("vimgrep") THEN "NOTHING" ELSE PathAsked
  BY <1>7, <1>11, <1>12
<1>21. /\ q.print_break <=> ~On("vimgrep") /\ (On("ackmate") \/ Get("print_break", TRUE))
       /\ q.group <=> On("vimgrep") \/ On("ackmate") \/ Get("group", env.tty)
  BY <1>7, <1>11, <1>12
<1>22. Formed(o)
  <2>1. o.print_path = IF AsksForStream THEN "NOTHING" ELSE r.print_path
    BY <1>9, <1>13
  <2>2. o.print_break <=> ~AsksForStream /\ r.print_break
    BY <1>9, <1>13
  <2>3. CASE On("vimgrep")
    <3>1. r.print_path = "NOTHING" /\ Form = "NOTHING" /\ ~r.print_break
      BY <1>8, <1>20, <1>21, <2>3 DEF Form
    <3>2. o.print_path = IF AsksForStream THEN "NOTHING" ELSE Form
      BY <2>1, <3>1
    <3>3. ~o.print_break
      BY <2>2, <3>1
    <3> QED
      BY <1>14, <1>17, <2>3, <3>2, <3>3, Zenon DEF Formed
  <2>4. CASE ~On("vimgrep")
    <3>1. /\ Form = "DEFAULT_EACH_LINE" <=> PathAsked = "DEFAULT" /\ ~On("ackmate") /\ ~Get("group", env.tty)
          /\ Form # "DEFAULT_EACH_LINE" => Form = PathAsked
      <4>1. PICK x : x = asked.settings.print_path
        OBVIOUS
      <4>2. Given("print_path") => x = "TOP" \/ x = "EACH_LINE"
        BY <1>19, <4>1
      <4>3. PathAsked =
                IF On("opt_files_with_matches") \/ On("opt_files_without_matches") THEN "TOP"
                ELSE IF On("opt_nofilename") \/ On("opt_stats_only") THEN "NOTHING"
                ELSE IF On("opt_filename") THEN "DEFAULT" ELSE IF Given("print_path") THEN x ELSE "DEFAULT"
        BY <4>1 DEF PathAsked, Get
      <4>4. Form =
                IF On("opt_files_with_matches") \/ On("opt_files_without_matches") THEN "TOP"
                ELSE IF On("opt_nofilename") \/ On("opt_stats_only") THEN "NOTHING"
                ELSE IF Given("print_path") /\ ~On("opt_filename") THEN x
                ELSE IF On("ackmate") \/ Get("group", env.tty) THEN "DEFAULT" ELSE "DEFAULT_EACH_LINE"
        BY <2>4, <4>1 DEF Form
      <4> QED
        BY <4>2, <4>3, <4>4
    <3>2. q.print_path = PathAsked
      BY <1>20, <2>4
    <3>3. q.print_path = "DEFAULT" /\ q.print_break /\ ~q.group
            <=> Form = "DEFAULT_EACH_LINE" /\ Get("print_break", TRUE)
      BY <1>21, <2>4, <3>1, <3>2
    <3>4. CASE NogroupNobreak
      <4>1. FormInDoubt
        BY <2>4, <3>4 DEF NogroupNobreak, FormInDoubt, Get
      <4> QED
        BY <1>14, <1>17, <4>1, Zenon DEF Formed
    <3>5. CASE ~NogroupNobreak
      <4>1. o.print_path = IF AsksForStream THEN "NOTHING" ELSE Form
        <5>1. CASE AsksForStream
          BY <2>1, <5>1
        <5>2. CASE ~AsksForStream
          <6>1. Form = "DEFAULT_EACH_LINE" => Get("print_break", TRUE)
            BY <3>5, <5>2 DEF NogroupNobreak
          <6>2. r.print_path = Form
            BY <1>8, <3>1, <3>2, <3>3, <6>1
          <6> QED
            BY <2>1, <5>2, <6>2
        <5> QED
          BY <5>1, <5>2
      <4>2. ~AsksForStream =>
                (r.print_break <=> On("ackmate") \/ (Get("print_break", TRUE) /\ Form # "DEFAULT_EACH_LINE"))
        <5>1. ~AsksForStream /\ Form = "DEFAULT_EACH_LINE" => Get("print_break", TRUE)
          BY <3>5 DEF NogroupNobreak
        <5> QED
          BY <1>8, <1>21, <2>4, <3>1, <3>3, <5>1
      <4>3. o.print_break <=>
                /\ ~AsksForStream /\ ~On("vimgrep")
                /\ On("ackmate") \/ (Get("print_break", TRUE) /\ Form # "DEFAULT_EACH_LINE")
        BY <2>2, <2>4, <4>2
      <4> QED
        BY <1>14, <1>17, <4>1, <4>3, Zenon DEF Formed
    <3> QED
      BY <3>4, <3>5
  <2> QED
    BY <2>3, <2>4
<1>23. Settled(o)
  <2>1. {"casing", "file_search_regex", "root_ignores", "workers"} \subseteq DOMAIN Defaults \ (Sizes \cup Fixed)
    BY CellsThere DEF Sizes, Fixed, Rewritten, Refined, IntFields
  <2>2. /\ o.casing = opts.casing /\ o.file_search_regex = opts.file_search_regex
        /\ o.root_ignores = opts.root_ignores /\ o.workers = opts.workers
    BY <1>10, <2>1
  <2>3. FilesRight(o)
    BY <2>2 DEF AtIgnores, Settled, FilesRight
  <2> QED
    BY <2>2, <2>3 DEF AtIgnores, Settled
<1>24. AsAsked({"file_search_regex_g", "opt_files_with_matches"}, o)
  <2>1. {"file_search_regex_g", "opt_files_with_matches"} \subseteq DOMAIN Defaults \ (Sizes \cup Fixed)
    BY CellsThere DEF StringFields, OffFields, FlagFields, Sizes, Fixed
  <2>2. {"file_search_regex_g", "opt_files_with_matches"} \subseteq DOMAIN Defaults \ Refined
    BY CellsThere DEF StringFields, OffFields, FlagFields, Refined, Rewritten
  <2> QED
    BY <1>10, <2>1, <2>2 DEF AtIgnores, AsAsked
<1>25. QueryThere
  BY DEF AtIgnores
<1> QED
  BY <1>9, <1>13, <1>18, <1>22, <1>23, <1>24, <1>25 DEF AtOutput, Cells

LEMMA HeadOrElse ==
    ASSUME NEW A, NEW W \in Seq(A), NEW e
    PROVE  Head(W \o <<e>>) = IF W = <<>> THEN e ELSE W[1]
<1>1. PICK S : A \subseteq S /\ e \in S
  <2>1. A \subseteq A \cup {e} /\ e \in A \cup {e}
    OBVIOUS
  <2> QED
    BY <2>1, Zenon
<1>2. W \in Seq(S)
  <2>1. PICK n \in Nat : W \in [1 .. n -> A]
    BY SeqDef
  <2>2. W \in [1 .. n -> S]
    BY <1>1, <2>1
  <2> QED
    BY <2>2, SeqDef
<1>3. <<e>> \in Seq(S)
  BY <1>1
<1> QED
  BY <1>2, <1>3

(* The query and the paths are those asked for.                            *)
LEMMA WordsRight ==
    ASSUME Known, AtOutput(opts), SetTarget
    PROVE  /\ Query = QueryAsked /\ Query \notin {NULL, ""}
           /\ NamedPaths = Paths /\ Paths \in Seq(DOMAIN Reading)
<1>1. /\ accepts_query <=> ~Given("file_search_regex_g")
      /\ needs_query <=> ~Given("file_search_regex_g") /\ ~On("opt_files_with_matches")
  BY NeedsRight DEF Known, AtOutput
<1>2. PICK W \in Seq(DOMAIN Reading) : W = asked.words /\ W = Rest
  BY DEF Known
<1>3. W # <<>> => Head(W) = W[1] /\ W[1] \in DOMAIN Reading /\ Tail(W) \in Seq(DOMAIN Reading)
  OBVIOUS
<1>4. Head(W \o <<"">>) = IF W = <<>> THEN "" ELSE W[1]
  BY HeadOrElse, Zenon
<1>5. NamedPaths = Paths /\ Paths \in Seq(DOMAIN Reading)
  BY <1>1, <1>2, <1>3 DEF NamedPaths, Paths
<1>6. W = <<>> => ~needs_query
  BY <1>1, <1>2 DEF AtOutput, QueryThere
<1>7. QueryAsked = IF Given("file_search_regex_g") \/ (On("opt_files_with_matches") /\ Head(W \o <<"">>) = "")
                   THEN "." ELSE Head(W)
  BY <1>2 DEF QueryAsked
<1>8. CASE accepts_query /\ W # <<>> /\ (needs_query \/ W[1] # "")
  <2>1. ~(~needs_query /\ (~accepts_query \/ W = <<>> \/ W[1] = ""))
    BY <1>8
  <2>2. Query = W[1]
    BY <1>2, <1>8, <2>1, Zenon DEF Query
  <2>3. QueryAsked = W[1]
    BY <1>1, <1>3, <1>4, <1>7, <1>8
  <2>4. W[1] # NULL
    BY <1>3, <1>8, ReadingAssumption, NullAssumption
  <2>5. Query # ""
    BY DEF SetTarget
  <2> QED
    BY <1>5, <2>2, <2>3, <2>4, <2>5
<1>9. CASE ~(accepts_query /\ W # <<>> /\ (needs_query \/ W[1] # ""))
  <2>1. ~needs_query /\ (~accepts_query \/ W = <<>> \/ W[1] = "")
    BY <1>1, <1>6, <1>9
  <2>2. Query = "."
    BY <1>2, <1>9, <2>1, Zenon DEF Query
  <2>3. QueryAsked = "."
    BY <1>1, <1>4, <1>7, <2>1
  <2>4. Query # NULL /\ Query # ""
    BY <2>2, DotAssumption
  <2> QED
    BY <1>5, <2>2, <2>3, <2>4
<1> QED
  BY <1>8, <1>9

LEMMA MainRight ==
    ASSUME Known, Cells(opts), AtOutput(opts), SetTarget, NEW o,
           o = [opts EXCEPT
                    !.query = Query, !.literal = @ \/ Query \notin Regexes,
                    !.paths = IF NamedPaths = <<>> THEN <<".">>
                              ELSE [i \in DOMAIN NamedPaths |-> NoTrailingSlash(NamedPaths[i])],
                    !.search_stream = @ /\ NamedPaths = <<>>]
    PROVE  Cells(o) /\ AtMain(o)
<1>1. Query = QueryAsked /\ Query \notin {NULL, ""} /\ NamedPaths = Paths /\ Paths \in Seq(DOMAIN Reading)
  BY WordsRight
<1>2. PICK paths : paths = IF NamedPaths = <<>> THEN <<".">>
                           ELSE [i \in DOMAIN NamedPaths |-> NoTrailingSlash(NamedPaths[i])]
  OBVIOUS
<1>3. o = [opts EXCEPT !.query = Query, !.literal = @ \/ Query \notin Regexes, !.paths = paths,
                       !.search_stream = @ /\ NamedPaths = <<>>]
  BY <1>2
<1>4. /\ DOMAIN o = DOMAIN Defaults
      /\ \A f \in DOMAIN Defaults \ {"query", "literal", "paths", "search_stream"} : o[f] = opts[f]
      /\ o.query = Query /\ o.paths = paths
      /\ o.search_stream = (opts.search_stream /\ NamedPaths = <<>>)
  BY <1>3, CellsThere DEF Cells
<1>5. {"print_line_numbers", "color", "print_path", "print_break", "casing", "file_search_regex",
       "root_ignores", "workers"} \subseteq DOMAIN Defaults \ {"query", "literal", "paths", "search_stream"}
  BY CellsThere DEF Rewritten, Refined, IntFields
<1>6. Formed(o)
  BY <1>4, <1>5 DEF AtOutput, Formed
<1>7. Settled(o)
  <2>1. /\ o.casing = opts.casing /\ o.file_search_regex = opts.file_search_regex
        /\ o.root_ignores = opts.root_ignores /\ o.workers = opts.workers
    BY <1>4, <1>5
  <2>2. FilesRight(o)
    BY <2>1 DEF AtOutput, Settled, FilesRight
  <2> QED
    BY <2>1, <2>2 DEF AtOutput, Settled
<1>8. paths # <<>> /\ Len(paths) = Max({1, Len(Paths)})
  <2>0. PICK P \in Seq(DOMAIN Reading) : P = Paths
    BY <1>1
  <2>1. PICK n \in Nat : n = Len(P) /\ DOMAIN P = 1 .. n /\ (P = <<>> <=> n = 0)
    BY EmptySeq
  <2>2. Max({1, n}) = IF 1 <= n THEN n ELSE 1
    <3>1. 1 \in Int /\ n \in Int
      OBVIOUS
    <3> QED
      BY <3>1, MinMax, Zenon
  <2>3. CASE Paths = <<>>
    <3>1. paths = <<".">> /\ n = 0
      BY <1>1, <1>2, <2>0, <2>1, <2>3
    <3> QED
      BY <2>0, <2>1, <2>2, <3>1
  <2>4. CASE Paths # <<>>
    <3>1. paths = [i \in 1 .. n |-> NoTrailingSlash(P[i])]
      BY <1>1, <1>2, <2>0, <2>1, <2>4
    <3>2. PICK S : S = {NoTrailingSlash(P[i]) : i \in 1 .. n}
      OBVIOUS
    <3>3. paths \in [1 .. n -> S]
      BY <3>1, <3>2
    <3>4. paths \in Seq(S) /\ DOMAIN paths = 1 .. n
      BY <3>3, SeqDef
    <3>5. Len(paths) = n
      BY <2>1, <3>4
    <3>6. n >= 1
      BY <2>0, <2>1, <2>4
    <3> QED
      BY <2>0, <2>1, <2>2, <3>4, <3>5, <3>6
  <2> QED
    BY <2>3, <2>4
<1>9. o.search_stream <=> AsksForStream /\ Paths = <<>>
  BY <1>1, <1>4 DEF AtOutput
<1>10. Cells(o)
  BY <1>4, <1>5 DEF Cells
<1> QED
  BY <1>1, <1>4, <1>6, <1>7, <1>8, <1>9, <1>10 DEF AtMain

LEMMA SearchRight ==
    ASSUME Known, env \in Environments, Cells(opts), AtMain(opts), NEW o,
           o = [opts EXCEPT !.casing = FinalCasing(opts), !.re = Regex(opts),
                            !.workers_len = Workers(opts)]
    PROVE  Cells(o) /\ AtSearch(o)
<1>1. PICK re : re = Regex(opts)
  OBVIOUS
<1>2. /\ DOMAIN o = DOMAIN Defaults
      /\ \A f \in DOMAIN Defaults \ {"casing", "re", "workers_len"} : o[f] = opts[f]
      /\ o.casing = FinalCasing(opts) /\ o.workers_len = Workers(opts)
  BY <1>1, CellsThere DEF Cells, Enumerated
<1>3. {"print_line_numbers", "color", "print_path", "print_break", "file_search_regex",
       "root_ignores", "search_stream", "query", "paths"} \subseteq DOMAIN Defaults \ {"casing", "re", "workers_len"}
  BY CellsThere DEF Rewritten, Refined
<1>4. Formed(o)
  BY <1>2, <1>3 DEF AtMain, Formed
<1>5. FilesRight(o) /\ (AllFiles => NoneOfAg(o.root_ignores))
  <2>1. o.file_search_regex = opts.file_search_regex /\ o.root_ignores = opts.root_ignores
    BY <1>2, <1>3
  <2>2. FilesRight(o)
    BY <2>1 DEF AtMain, Settled, FilesRight
  <2> QED
    BY <2>1, <2>2 DEF AtMain, Settled
<1>6. /\ o.search_stream <=> AsksForStream /\ Paths = <<>>
      /\ o.query = QueryAsked /\ o.query \notin {NULL, ""} /\ o.query = opts.query
      /\ o.paths # <<>> /\ Len(o.paths) = Max({1, Len(Paths)})
  BY <1>2, <1>3 DEF AtMain
<1>7. o.workers_len > 0
  <2>1. opts.workers \in Int
    <3>1. "workers" \in IntFields
      BY DEF IntFields
    <3>2. Given("workers") => asked.settings["workers"] \in Int
      BY <3>1, Zenon DEF Known, TypedSettings, Typed, Given
    <3>3. opts.workers = IF Given("workers") THEN asked.settings["workers"] ELSE 0
      BY Zenon DEF AtMain, Settled, Get
    <3> QED
      BY <3>2, <3>3
  <2>2. env.cores \in Nat
    BY EnvironmentsAssumption
  <2>3. Min({env.cores, 8}) \in Int
    BY <2>2, MinMax
  <2>4. PICK w \in Int : Workers(opts) = Max({1, w})
    <3>1. PICK usual \in Int : usual = Min({env.cores, 8}) - (IF opts.literal THEN 1 ELSE 0)
      BY <2>3
    <3>2. PICK w : w = IF opts.workers # 0 THEN opts.workers ELSE usual
      OBVIOUS
    <3>3. w \in Int
      BY <2>1, <3>2
    <3>4. Workers(opts) = Max({1, w})
      BY <3>1, <3>2, Zenon DEF Workers
    <3> QED
      BY <3>3, <3>4
  <2>5. Workers(opts) >= 1 /\ Workers(opts) \in Int
    BY <2>4, MinMax
  <2> QED
    BY <1>2, <2>5
<1>8. o.casing = IF Get("casing", "SMART") # "SMART" THEN asked.settings.casing
                 ELSE IF o.query \in Capitals THEN "SENSITIVE" ELSE "INSENSITIVE"
  <2>1. opts.casing = Get("casing", "SMART")
    BY DEF AtMain, Settled
  <2>2. CASE Get("casing", "SMART") # "SMART"
    <3>1. opts.casing = asked.settings.casing
      BY <2>1, <2>2 DEF Get
    <3>2. FinalCasing(opts) = opts.casing
      BY <2>1, <2>2, Zenon DEF FinalCasing
    <3> QED
      BY <1>2, <2>2, <3>1, <3>2
  <2>3. CASE Get("casing", "SMART") = "SMART"
    <3>1. opts.casing = "SMART"
      BY <2>1, <2>3
    <3>2. FinalCasing(opts) = IF opts.query \in Capitals THEN "SENSITIVE" ELSE "INSENSITIVE"
      BY <3>1 DEF FinalCasing
    <3> QED
      BY <1>2, <1>6, <2>3, <3>2
  <2> QED
    BY <2>2, <2>3
<1>9. Cells(o)
  BY <1>2, <1>3 DEF Cells
<1>10. ~AsksForInformation
  BY DEF AtMain, Settled
<1> QED
  BY <1>4, <1>5, <1>6, <1>7, <1>8, <1>9, <1>10 DEF AtSearch

(* This is what the documentation says.                                    *)
LEMMA AsDocumentedRight ==
    ASSUME pc = "search", Known, AtSearch(opts)
    PROVE  SearchAsDocumented
<1>1. FormatAsDocumented
  BY DEF FormatAsDocumented, AtSearch, Formed
<1>2. FilesAsked
  <2>1. ASSUME AllFiles, NEW k \in DOMAIN opts.root_ignores PROVE opts.root_ignores[k].from # "ag"
    <3>1. PICK S : opts.root_ignores \in Seq(S) /\ \A e \in S : e.from # "ag"
      BY <2>1 DEF AtSearch, NoneOfAg
    <3> QED
      BY <3>1
  <2>2. FilesRight(opts)
    BY DEF AtSearch
  <2> QED
    BY <2>1, <2>2 DEF FilesAsked, FilesRight, AllFiles
<1>3. TargetAsDocumented
  BY <1>2 DEF TargetAsDocumented, AtSearch, Known
<1> QED
  BY <1>1, <1>3 DEF SearchAsDocumented

-----------------------------------------------------------------------------
(***************************************************************************)
(* The invariant of the stages.                                            *)
(***************************************************************************)
Ended ==
    IF pc = "exit"
    THEN status \in {0, 1, 2} /\ (status = 0 <=> argv # <<>> /\ asked.wellFormed /\ AsksForInformation)
    ELSE status = NULL

Stages ==
    /\ pc = "handled" => AtHandled(opts)
    /\ pc = "filtered" => AtFiltered(opts)
    /\ pc = "ignores" => AtIgnores(opts)
    /\ pc = "output" => AtOutput(opts)
    /\ pc = "main" => AtMain(opts)
    /\ pc = "search" => AtSearch(opts)

Shape ==
    /\ pc \in {"start", "parse", "parsed", "handled", "filtered", "ignores", "output", "main",
               "search", "exit"}
    /\ env \in Environments /\ argNext \in 1 .. Len(argv) + 1
    /\ letter = 1 \/ (argNext <= Len(argv) /\ letter \in DOMAIN Here.names)
    /\ Cells(opts) /\ Ended

Progress ==
    /\ pc \in {"parse", "parsed"} => argv # <<>> /\ HasOutput
    /\ pc = "parsed" /\ errorDetails = NULL => Known
    /\ pc \in {"handled", "filtered", "ignores", "output", "main", "search"} => Known

SInv == IInv /\ Shape /\ Progress /\ Stages

(* What is asked for does not change.                                      *)
LEMMA SameAsked ==
    ASSUME UNCHANGED <<asked, env>>
    PROVE  /\ \A f : Given(f)' <=> Given(f)
           /\ \A f, d : Get(f, d)' = Get(f, d)
           /\ \A f : On(f)' = On(f)
           /\ Defaults' = Defaults
           /\ AsksForInformation' <=> AsksForInformation
           /\ TypedSettings' <=> TypedSettings
<1>1. \A f : Given(f)' <=> Given(f)
  BY DEF Given
<1>2. \A f, d : Get(f, d)' = Get(f, d)
  BY DEF Get, Given
<1>3. \A f : On(f)' = On(f)
  BY DEF On, Get, Given
<1>4. Defaults' = Defaults
  BY DEF Defaults, ColorByDefault
<1>5. AsksForInformation' <=> AsksForInformation
  BY DEF AsksForInformation, HasOutput, Pattern, On, Get, Given
<1>6. TypedSettings' <=> TypedSettings
  BY <1>4 DEF TypedSettings
<1> QED
  BY <1>1, <1>2, <1>3, <1>4, <1>5, <1>6

LEMMA SameStage ==
    ASSUME UNCHANGED <<asked, env>>, NEW o, opts' = o
    PROVE  /\ Cells(o) => Cells(opts)'
           /\ AtHandled(o) => AtHandled(opts)'
           /\ AtFiltered(o) => AtFiltered(opts)'
           /\ AtIgnores(o) => AtIgnores(opts)'
           /\ AtOutput(o) => AtOutput(opts)'
           /\ AtMain(o) => AtMain(opts)'
           /\ AtSearch(o) => AtSearch(opts)'
<1>1. /\ \A f, d : Get(f, d)' = Get(f, d)
      /\ Defaults' = Defaults /\ (AsksForInformation' <=> AsksForInformation)
  BY SameAsked
<1>2. Cells(o) => Cells(opts)'
  BY <1>1 DEF Cells
<1>3. ASSUME NEW F, AsAsked(F, o) PROVE AsAsked(F, opts)'
  BY <1>1, <1>3 DEF AsAsked, Get, Given
<1>4. Unformed(o) => Unformed(opts)'
  BY DEF Unformed, PathAsked, NumbersAsked, ColorByDefault, On, Get, Given
<1>5. FilesRight(o) => FilesRight(opts)'
  BY DEF FilesRight, Types, Pattern, On, Get, Given
<1>6. Formed(o) => Formed(opts)'
  <2>1. /\ ColorByDefault' = ColorByDefault /\ Form' = Form /\ (AsksForStream' <=> AsksForStream)
        /\ (NumbersInDoubt' <=> NumbersInDoubt) /\ (NumbersWanted' <=> NumbersWanted)
        /\ (FormInDoubt' <=> FormInDoubt)
    BY DEF ColorByDefault, Form, AsksForStream, NumbersInDoubt, NumbersWanted, FormInDoubt,
           OnlyNames, On, Get, Given
  <2> QED
    BY <1>1, <2>1 DEF Formed, On
<1>7. (AllFiles' <=> AllFiles) /\ PagerAsked' = PagerAsked /\ DirFilter' = DirFilter /\ Pattern' = Pattern
      /\ (On("show_help")' <=> On("show_help")) /\ (On("version")' <=> On("version"))
  BY DEF AllFiles, PagerAsked, DirFilter, Pattern, On, Get, Given
<1>8. Settled(o) => Settled(opts)'
  BY <1>1, <1>5, <1>7 DEF Settled, Get, Given
<1>9. (QueryThere' <=> QueryThere) /\ (AsksForStream' <=> AsksForStream)
      /\ Paths' = Paths /\ QueryAsked' = QueryAsked
  BY DEF QueryThere, AsksForStream, Paths, QueryAsked, On, Get, Given
<1>10. AtHandled(o) => AtHandled(opts)'
  BY <1>1, <1>3, <1>4, <1>7 DEF AtHandled
<1>11. AtFiltered(o) => AtFiltered(opts)'
  BY <1>1, <1>3, <1>4, <1>5, <1>7 DEF AtFiltered, Get, Given
<1>12. AtIgnores(o) => AtIgnores(opts)'
  BY <1>1, <1>3, <1>4, <1>8, <1>9 DEF AtIgnores
<1>13. AtOutput(o) => AtOutput(opts)'
  BY <1>3, <1>6, <1>8, <1>9 DEF AtOutput
<1>14. AtMain(o) => AtMain(opts)'
  BY <1>6, <1>8, <1>9 DEF AtMain
<1>15. AtSearch(o) => AtSearch(opts)'
  BY <1>1, <1>5, <1>6, <1>7, <1>9 DEF AtSearch, Get, Given
<1> QED
  BY <1>2, <1>10, <1>11, <1>12, <1>13, <1>14, <1>15

LEMMA ParseStages == ASSUME SInv, Parse PROVE Shape' /\ Progress' /\ Stages'
<1>1. /\ pc = "parse" /\ status = NULL /\ UNCHANGED <<env, asked, status>>
      /\ pc' \in {"parse", "parsed"} /\ argv' = argv /\ argv # <<>> /\ HasOutput /\ HasOutput'
  <2>1. pc = "parse" /\ pc' \in {"parse", "parsed"} /\ argv' = argv /\ UNCHANGED <<env, asked, status>>
    BY DEF Parse, dropt_parse, Nameless, UnknownOption, BadArgument, SetOption, EndOfOptions, AtOption,
           set_error_details
  <2>2. HasOutput' <=> HasOutput
    BY <2>1 DEF HasOutput
  <2> QED
    BY <2>1, <2>2 DEF SInv, Shape, Ended, Progress
<1>2. PICK V : Read(V)
  BY DEF SInv, IInv
<1>3. argv \in Seq(DOMAIN Reading) /\ Taken(V) /\ Place(V) /\ Accepted(V) /\ Values(V) /\ asked = Reads(V, Uses(V))
  BY <1>1, <1>2 DEF SInv, IInv, Read
<1>4. IInv'
  BY ParseRight DEF SInv
<1>5. Cells(opts) /\ env \in Environments /\ Defaults' = Defaults
  BY <1>1, SameAsked DEF SInv, Shape
<1>6. ASSUME UNCHANGED <<opts>> PROVE Cells(opts)'
  BY <1>5, <1>6 DEF Cells
<1>7. Ended' /\ Stages'
  BY <1>1 DEF Ended, Stages
<1>8. ASSUME argNext' \in 1 .. Len(argv) + 1, Cells(opts)',
             letter' = 1 \/ (argNext' <= Len(argv) /\ letter' \in DOMAIN Here'.names)
      PROVE  Shape'
  BY <1>1, <1>5, <1>7, <1>8 DEF Shape
<1>9. CASE SetOption
  <2>1. Place(V)' /\ pc' = "parse"
    BY <1>1, <1>3, <1>9, OneMore DEF SetOption
  <2>2. PICK k \in Find(Here.names[letter]) :
            /\ Handle(k, ArgumentOf(k)) = "none"
            /\ opts' = [opts EXCEPT ![Entries[k].field] = Stored(k, ArgumentOf(k))]
    BY <1>9 DEF SetOption
  <2>3. k \in DOMAIN Entries /\ Entries[k].field \in DOMAIN Defaults
    BY <2>2, FindIs, DefaultsFacts
  <2>4. Typed(Entries[k].field, Stored(k, ArgumentOf(k)))
    BY <2>2, <2>3, StoredTyped
  <2>5. Cells(opts)'
    <3>1. DOMAIN opts' = DOMAIN Defaults
      BY <1>5, <2>2 DEF Cells
    <3>2. opts'["print_line_numbers"] \in 0 .. 2
      <4>1. "print_line_numbers" \in DOMAIN opts
        BY <1>5, CellsThere DEF Cells, Enumerated
      <4> QED
        BY <1>5, <2>2, <2>4, <4>1 DEF Cells, Typed
    <3> QED
      BY <1>5, <3>1, <3>2 DEF Cells
  <2>6. argNext' \in 1 .. Len(argv) + 1
    BY <1>1, <2>1 DEF Place
  <2>7. letter' = 1 \/ (argNext' <= Len(argv) /\ letter' \in DOMAIN Here'.names)
    <3>1. letter' # 1 => argNext' <= Len(argv) /\ letter' \in Nat \ {0} /\ letter' <= Len(Here'.names)
      BY <1>1, <2>1 DEF Place
    <3>2. ASSUME argNext' <= Len(argv) PROVE DOMAIN Here'.names = 1 .. Len(Here'.names) /\ Len(Here'.names) \in Nat
      <4>1. PICK n \in 1 .. Len(argv) : n = argNext'
        BY <1>3, <2>6, <3>2
      <4>2. Here' = Reading[argv[n]]
        BY <1>1, <4>1 DEF Here
      <4> QED
        BY <1>3, <4>2, WordFacts
    <3> QED
      BY <3>1, <3>2
  <2>8. Progress'
    BY <1>1, <2>1 DEF Progress
  <2> QED
    BY <1>7, <1>8, <2>5, <2>6, <2>7, <2>8
<1>10. CASE Nameless \/ UnknownOption \/ BadArgument
  <2>1. pc' = "parsed" /\ errorDetails' # NULL
    BY <1>3, <1>10, ErrorRight
  <2>2. UNCHANGED <<argv, argNext, letter, opts>>
    BY <1>10 DEF Nameless, UnknownOption, BadArgument, set_error_details
  <2>3. Here' = Here
    BY <2>2 DEF Here
  <2>4. Shape'
    BY <1>6, <1>8, <2>2, <2>3 DEF SInv, Shape
  <2>5. Progress'
    BY <1>1, <2>1 DEF Progress
  <2> QED
    BY <1>7, <2>4, <2>5
<1>11. CASE EndOfOptions
  <2>1. /\ pc' = "parsed" /\ errorDetails' = NULL
        /\ WellFormed(V, Uses(V)) /\ Rest' = LeftOver(V) /\ UNCHANGED <<letter, opts>>
        /\ argNext' = argNext + (IF argNext <= Len(argv) /\ argv[argNext] = "--" THEN 1 ELSE 0)
    BY <1>3, <1>11, EndRight DEF EndOfOptions
  <2>2. PICK n \in 1 .. Len(argv) + 1 : n = argNext
    BY <1>3 DEF Place
  <2>3. argNext' \in 1 .. Len(argv) + 1
    BY <1>3, <2>1, <2>2
  <2>4. letter' = 1
    <3>1. ~AtOption
      BY <1>11 DEF EndOfOptions
    <3> QED
      BY <1>1, <1>3, <2>1, <3>1 DEF Place, AtOption
  <2>5. Shape'
    BY <1>6, <1>8, <2>1, <2>3, <2>4
  <2>6. asked.wellFormed /\ asked.settings = Settings(Uses(V))
    BY <1>3, <2>1 DEF Reads
  <2>7. TypedSettings
    <3>1. \A f \in DOMAIN Settings(Uses(V)) : f \in DOMAIN Defaults /\ Typed(f, Settings(Uses(V))[f])
      BY <1>3, <1>11, SettingsTyped
    <3> QED
      BY <2>6, <3>1 DEF TypedSettings
  <2>8. Rest' = asked.words
    BY <1>1, <1>4, <2>1 DEF IInv, LastSettingWins
  <2>9. asked.words \in Seq(DOMAIN Reading)
    <3>1. Rest' = SubSeq(argv, argNext', Len(argv))
      BY <1>1 DEF Rest
    <3> QED
      BY <1>3, <2>3, <2>8, <3>1
  <2>10. Known'
    BY <1>1, <2>6, <2>7, <2>8, <2>9, SameAsked DEF Known
  <2>11. Progress'
    BY <1>1, <2>1, <2>10 DEF Progress
  <2> QED
    BY <1>7, <2>5, <2>11
<1> QED
  BY <1>9, <1>10, <1>11 DEF Parse, dropt_parse

(* The program ends, and with success only if it has told what was asked.  *)
LEMMA EndsRight ==
    ASSUME SInv, NEW code \in {0, 1, 2}, Exit(code),
           code = 0 <=> argv # <<>> /\ asked.wellFormed /\ AsksForInformation
    PROVE  Shape' /\ Progress' /\ Stages'
<1>1. pc' = "exit" /\ status' = code /\ UNCHANGED <<argv, argNext, letter, opts, env, asked>>
  BY DEF Exit
<1>2. AsksForInformation' <=> AsksForInformation
  BY <1>1, SameAsked
<1>3. Ended'
  BY <1>1, <1>2 DEF Ended
<1>4. Cells(opts)' /\ Here' = Here
  BY <1>1, SameAsked DEF SInv, Shape, Cells, Here
<1>5. Shape'
  BY <1>1, <1>3, <1>4 DEF SInv, Shape
<1> QED
  BY <1>1, <1>5 DEF Progress, Stages

(* A stage is over, and the next one finds what it needs.                  *)
LEMMA GoesOn ==
    ASSUME SInv, pc # "exit", Known, NEW o, Cells(o),
           NEW next \in {"handled", "filtered", "ignores", "output", "main", "search"}, Goto(next, o)
    PROVE  Shape' /\ Progress'
<1>1. pc' = next /\ opts' = o /\ UNCHANGED <<argv, argNext, letter, env, asked, status>>
  BY DEF Goto
<1>2. Ended'
  BY <1>1 DEF SInv, Shape, Ended
<1>3. Cells(opts)' /\ Here' = Here /\ Rest' = Rest
  BY <1>1, SameStage DEF Here, Rest
<1>4. Shape'
  BY <1>1, <1>2, <1>3 DEF SInv, Shape
<1>5. Known'
  BY <1>1, <1>3, SameAsked DEF Known, HasOutput
<1> QED
  BY <1>1, <1>4, <1>5 DEF Progress

LEMMA UsageStages == ASSUME SInv, Usage \/ NoOutput \/ Begin PROVE Shape' /\ Progress' /\ Stages'
<1>1. CASE Usage
  BY <1>1, EndsRight DEF Usage
<1>3. CASE NoOutput
  BY <1>3, EndsRight DEF NoOutput, AsksForInformation
<1>2. CASE Begin
  <2>0. HasOutput'
    BY <1>2 DEF Begin, Goto, HasOutput
  <2>1. pc = "start" /\ argv # <<>> /\ pc' = "parse" /\ UNCHANGED <<opts, argv, argNext, letter, env, asked, status>>
    BY <1>2 DEF Begin, Goto
  <2>2. Ended'
    BY <2>1 DEF SInv, Shape, Ended
  <2>3. Cells(opts)' /\ Here' = Here
    BY <2>1, SameAsked DEF SInv, Shape, Cells, Here
  <2>4. Shape'
    BY <2>1, <2>2, <2>3 DEF SInv, Shape
  <2> QED
    BY <2>0, <2>1, <2>4 DEF Progress, Stages
<1> QED
  BY <1>1, <1>2, <1>3

LEMMA ParsedStages ==
    ASSUME SInv, ParseError \/ ShowHelp \/ BadDirFilter \/ Handled
    PROVE  Shape' /\ Progress' /\ Stages'
<1>1. pc = "parsed"
  BY DEF ParseError, ShowHelp, BadDirFilter, Handled, Parsed
<1>2. errorDetails = NULL => Known /\ opts = Over(asked.settings, Defaults)
  BY <1>1 DEF SInv, IInv, LastSettingWins, Progress
<1>3. ASSUME errorDetails = NULL
      PROVE  opts.show_help = On("show_help") /\ opts.ackmate_dir_filter_str = DirFilter
  <2>1. AsAsked(DOMAIN Defaults, opts)
    BY <1>2, <1>3, ParsedFields DEF Known
  <2>2. /\ "show_help" \in OffFields /\ "show_help" \in DOMAIN Defaults
        /\ "ackmate_dir_filter_str" \in StringFields /\ "ackmate_dir_filter_str" \in DOMAIN Defaults
    BY CellsThere DEF OffFields, FlagFields, StringFields
  <2> QED
    BY <2>1, <2>2, DefaultValues DEF AsAsked, On, DirFilter
<1>4. CASE ParseError
  <2>1. ~asked.wellFormed
    BY <1>1, <1>4 DEF SInv, IInv, LastSettingWins, ParseError
  <2> QED
    BY <1>4, <2>1, EndsRight DEF ParseError
<1>5. CASE ShowHelp
  <2>1. argv # <<>> /\ asked.wellFormed /\ AsksForInformation
    BY <1>2, <1>3, <1>5 DEF ShowHelp, Parsed, Known, AsksForInformation
  <2> QED
    BY <1>5, <2>1, EndsRight DEF ShowHelp
<1>6. CASE BadDirFilter
  <2>1. ~AsksForInformation
    BY <1>3, <1>6 DEF BadDirFilter, Parsed, AsksForInformation, DirFilter
  <2> QED
    BY <1>6, <2>1, EndsRight DEF BadDirFilter
<1>7. CASE Handled
  <2>1. PICK o : o = HandleOptions(opts)
    OBVIOUS
  <2>2. Goto("handled", o) /\ Known
    BY <1>2, <1>7, <2>1 DEF Handled, Parsed
  <2>3. Cells(o) /\ AtHandled(o)
    BY <1>2, <1>7, <2>1, HandledRight DEF Handled, Parsed, Known
  <2>4. Shape' /\ Progress'
    BY <1>1, <2>2, <2>3, GoesOn
  <2>5. Stages'
    BY <2>2, <2>3, SameStage DEF Goto, Stages
  <2> QED
    BY <2>4, <2>5
<1> QED
  BY <1>4, <1>5, <1>6, <1>7

LEMMA HandledStages ==
    ASSUME SInv, Version \/ BadFileRegex \/ Filtered
    PROVE  Shape' /\ Progress' /\ Stages'
<1>1. pc = "handled" /\ Known /\ Cells(opts) /\ AtHandled(opts)
  BY DEF Version, BadFileRegex, Filtered, SInv, Shape, Progress, Stages
<1>2. FileRegex = Pattern
  BY <1>1, PatternRight DEF AtHandled, Known
<1>3. opts.version = On("version")
  <2>1. "version" \in OffFields /\ "version" \in DOMAIN Defaults \ Rewritten
    BY CellsThere DEF OffFields, FlagFields, Rewritten
  <2> QED
    BY <1>1, <2>1, DefaultValues DEF AtHandled, AsAsked, On
<1>4. ~On("show_help") /\ DirFilter \notin Broken
  BY <1>1 DEF AtHandled
<1>5. CASE Version
  <2>1. argv # <<>> /\ asked.wellFormed /\ AsksForInformation
    BY <1>1, <1>3, <1>4, <1>5 DEF Version, Known, AsksForInformation, DirFilter
  <2> QED
    BY <1>5, <2>1, EndsRight DEF Version
<1>6. CASE BadFileRegex
  <2>1. ~AsksForInformation
    BY <1>2, <1>3, <1>4, <1>6 DEF BadFileRegex, AsksForInformation
  <2> QED
    BY <1>6, <2>1, EndsRight DEF BadFileRegex
<1>7. CASE Filtered
  <2>1. PICK o : o = [opts EXCEPT !.casing = Casing(opts), !.file_search_regex = FileFilter]
    OBVIOUS
  <2>2. Goto("filtered", o)
    BY <1>7, <2>1 DEF Filtered
  <2>3. Cells(o) /\ AtFiltered(o)
    BY <1>1, <1>7, <2>1, FilteredRight DEF Known
  <2>4. Shape' /\ Progress'
    BY <1>1, <2>2, <2>3, GoesOn
  <2>5. Stages'
    BY <2>2, <2>3, SameStage DEF Goto, Stages
  <2> QED
    BY <2>4, <2>5
<1> QED
  BY <1>5, <1>6, <1>7

LEMMA FilteredStages ==
    ASSUME SInv, NoPager \/ ListFileTypes \/ WhatFor \/ LoadIgnores
    PROVE  Shape' /\ Progress' /\ Stages'
<1>1. pc = "filtered" /\ Known /\ Cells(opts) /\ AtFiltered(opts)
  BY DEF NoPager, ListFileTypes, WhatFor, LoadIgnores, Paged, SInv, Shape, Progress, Stages
<1>2. /\ NoPager => ~AsksForInformation
      /\ ListFileTypes => AsksForInformation
      /\ Paged /\ ~opts.list_file_types => ~AsksForInformation
  BY <1>1, InformationRight DEF Known
<1>3. CASE NoPager
  BY <1>2, <1>3, EndsRight DEF NoPager
<1>4. CASE ListFileTypes
  <2>1. argv # <<>> /\ asked.wellFormed /\ AsksForInformation
    BY <1>1, <1>2, <1>4 DEF Known
  <2> QED
    BY <1>4, <2>1, EndsRight DEF ListFileTypes
<1>5. CASE WhatFor
  BY <1>2, <1>5, EndsRight DEF WhatFor
<1>6. CASE LoadIgnores
  <2>1. PICK o : o = [opts EXCEPT !.root_ignores =
            @ \o (IF env.home /\ ~opts.search_all_files THEN Ignores("ag", "$HOME/.agignore")
                  ELSE <<>>)
              \o (IF ~opts.skip_vcs_ignores /\ env.forks THEN GitIgnores ELSE <<>>)]
    OBVIOUS
  <2>2. Goto("ignores", o)
    BY <1>6, <2>1 DEF LoadIgnores
  <2>3. Cells(o) /\ AtIgnores(o)
    BY <1>1, <1>6, <2>1, IgnoresRight
  <2>4. Shape' /\ Progress'
    BY <1>1, <2>2, <2>3, GoesOn
  <2>5. Stages'
    BY <2>2, <2>3, SameStage DEF Goto, Stages
  <2> QED
    BY <2>4, <2>5
<1> QED
  BY <1>3, <1>4, <1>5, <1>6

LEMMA LastStages ==
    ASSUME SInv, Output \/ NoQuery \/ SetTarget \/ BadRegex \/ Search
    PROVE  Shape' /\ Progress' /\ Stages'
<1>1. /\ pc = "ignores" => Known /\ Cells(opts) /\ AtIgnores(opts)
      /\ pc = "output" => Known /\ Cells(opts) /\ AtOutput(opts)
      /\ pc = "main" => Known /\ Cells(opts) /\ AtMain(opts) /\ env \in Environments
  BY DEF SInv, Shape, Progress, Stages
<1>2. CASE Output
  <2>1. PICK o : o = Streamed(Grouped(Parallel(Vimgrep(Ackmate(Sized(opts))))))
    OBVIOUS
  <2>2. pc = "ignores" /\ Goto("output", o)
    BY <1>2, <2>1 DEF Output
  <2>3. Cells(o) /\ AtOutput(o)
    BY <1>1, <2>1, <2>2, OutputRight
  <2>4. Shape' /\ Progress'
    BY <1>1, <2>2, <2>3, GoesOn
  <2>5. Stages'
    BY <2>2, <2>3, SameStage DEF Goto, Stages
  <2> QED
    BY <2>4, <2>5
<1>3. CASE NoQuery
  <2>1. ~AsksForInformation
    BY <1>1, <1>3 DEF NoQuery, AtOutput, Settled
  <2>2. Exit(1)
    BY <1>3 DEF NoQuery
  <2> QED
    BY <2>1, <2>2, EndsRight
<1>4. CASE SetTarget
  <2>1. PICK o : o = [opts EXCEPT
            !.query = Query, !.literal = @ \/ Query \notin Regexes,
            !.paths = IF NamedPaths = <<>> THEN <<".">>
                      ELSE [i \in DOMAIN NamedPaths |-> NoTrailingSlash(NamedPaths[i])],
            !.search_stream = @ /\ NamedPaths = <<>>]
    OBVIOUS
  <2>2. pc = "output" /\ Goto("main", o)
    BY <1>4, <2>1 DEF SetTarget
  <2>3. Cells(o) /\ AtMain(o)
    BY <1>1, <1>4, <2>1, <2>2, MainRight
  <2>4. Shape' /\ Progress'
    BY <1>1, <2>2, <2>3, GoesOn
  <2>5. Stages'
    BY <2>2, <2>3, SameStage DEF Goto, Stages
  <2> QED
    BY <2>4, <2>5
<1>5. CASE BadRegex
  <2>1. ~AsksForInformation
    BY <1>1, <1>5 DEF BadRegex, AtMain, Settled
  <2> QED
    BY <1>5, <2>1, EndsRight DEF BadRegex
<1>6. CASE Search
  <2>1. PICK o : o = [opts EXCEPT !.casing = FinalCasing(opts), !.re = Regex(opts),
                                  !.workers_len = Workers(opts)]
    OBVIOUS
  <2>2. pc = "main" /\ Goto("search", o)
    BY <1>6, <2>1 DEF Search
  <2>3. Cells(o) /\ AtSearch(o)
    BY <1>1, <2>1, <2>2, SearchRight
  <2>4. Shape' /\ Progress'
    BY <1>1, <2>2, <2>3, GoesOn
  <2>5. Stages'
    BY <2>2, <2>3, SameStage DEF Goto, Stages
  <2> QED
    BY <2>4, <2>5
<1> QED
  BY <1>2, <1>3, <1>4, <1>5, <1>6

LEMMA StagesInvariant == ASSUME NoGarbage PROVE Spec => []SInv
<1>1. ASSUME Init PROVE Shape /\ Progress /\ Stages
  <2>1. /\ pc = "start" /\ argNext = 1 /\ letter = 1 /\ status = NULL /\ env \in Environments
        /\ argv \in Seq(DOMAIN Reading)
    BY <1>1, CommandLinesAssumption DEF Init
  <2>2. opts = Defaults
    BY <1>1, StartsWithDefaults
  <2>3. Cells(opts)
    <3>1. Defaults["print_line_numbers"] = 1
      BY DefaultValues
    <3> QED
      BY <2>2, <3>1 DEF Cells
  <2>4. argNext \in 1 .. Len(argv) + 1
    BY <2>1
  <2> QED
    BY <2>1, <2>3, <2>4 DEF Shape, Ended, Progress, Stages
<1>2. ASSUME SInv, IInv', [Next]_vars PROVE SInv'
  <2>1. CASE UNCHANGED vars
    <3>1. UNCHANGED <<pc, argv, argNext, letter, opts, errorDetails, env, asked, status>>
      BY <2>1 DEF vars
    <3>2. PICK o : o = opts
      OBVIOUS
    <3>3. Cells(opts)' /\ (AsksForInformation' <=> AsksForInformation) /\ Here' = Here /\ Rest' = Rest
      BY <1>2, <3>1, SameAsked DEF SInv, Shape, Cells, Here, Rest
    <3>4. Shape'
      BY <1>2, <3>1, <3>3 DEF SInv, Shape, Ended
    <3>5. Known => Known'
      BY <3>1, <3>3, SameAsked DEF Known, HasOutput
    <3>6. Progress'
      BY <1>2, <3>1, <3>5 DEF SInv, Progress, HasOutput
    <3>7. Stages'
      BY <1>2, <3>1, <3>2, SameStage DEF SInv, Stages
    <3> QED
      BY <1>2, <3>4, <3>6, <3>7 DEF SInv
  <2>2. CASE Next
    <3>1. Shape' /\ Progress' /\ Stages'
      BY <1>2, <2>2, UsageStages, ParseStages, ParsedStages, HandledStages, FilteredStages, LastStages DEF Next
    <3> QED
      BY <1>2, <3>1 DEF SInv
  <2> QED
    BY <1>2, <2>1, <2>2
<1> QED
  BY <1>1, <1>2, Invariant, PTL DEF Spec, SInv

(* Every variable has the values its stage allows, and a search has a      *)
(* query, a path and a worker.                                             *)
THEOREM TypeCorrect == ASSUME NoGarbage PROVE Spec => []TypeOK
<1>1. ASSUME SInv PROVE TypeOK
  <2>1. PICK o : o = opts
    OBVIOUS
  <2>2. pc = "search" => opts.query \notin {NULL, ""} /\ opts.paths # <<>> /\ opts.workers_len > 0
    BY <1>1 DEF SInv, Stages, AtSearch
  <2>3. status \in IF pc = "exit" THEN {0, 1, 2} ELSE {NULL}
    BY <1>1 DEF SInv, Shape, Ended
  <2>4. opts.print_line_numbers \in 0 .. 2
    BY <1>1 DEF SInv, Shape, Cells
  <2> QED
    BY <1>1, <2>2, <2>3, <2>4 DEF TypeOK, SInv, Shape
<1> QED
  BY <1>1, StagesInvariant, PTL

(* main() starts the search that the whole command line asks for, with the *)
(* output it asks for, and the program ends with success and without a     *)
(* search only if it was asked for information.                            *)
THEOREM SearchCorrect == ASSUME NoGarbage PROVE Spec => []SearchAsDocumented
<1>1. ASSUME SInv PROVE SearchAsDocumented
  <2>1. CASE pc = "search"
    BY <1>1, <2>1, AsDocumentedRight DEF SInv, Progress, Stages
  <2>2. CASE pc = "exit"
    BY <1>1, <2>2 DEF SInv, Shape, Ended, SearchAsDocumented, FormatAsDocumented, TargetAsDocumented
  <2>3. CASE pc \notin {"search", "exit"}
    BY <2>3 DEF SearchAsDocumented, FormatAsDocumented, TargetAsDocumented
  <2> QED
    BY <2>1, <2>2, <2>3
<1> QED
  BY <1>1, StagesInvariant, PTL

=============================================================================
