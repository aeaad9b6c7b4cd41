-------------------------------- MODULE Ldso --------------------------------
(***************************************************************************)
(* The stage-0 dynamic loader of userspace/libc/ldso: ldso_stage0_bootstrap*)
(* of x86_64/ldso_bootstrap.c, the ELF functions of ldso_elf.c, and the    *)
(* objects, symbol look-up and dl functions of ldso_dlfcn.c.  The program, *)
(* with the stack it is started on, is one of a set of images.  The loader *)
(* is one thread; the dl functions are called by the program's             *)
(* initialisers, and _start goes nowhere after them.                       *)
(*                                                                         *)
(* An image has: argv_ok, envs (how many), preload (what LD_PRELOAD        *)
(* names), auxv and dyn (sequences of tag and value), phdrs (of type and   *)
(* address), symtab (of name, defined and value, from index 1; the name    *)
(* is NoName beyond DT_STRSZ), rela, jmprel (of type, sym, offset and      *)
(* addend), init_array (the offsets of its words) and data (what words     *)
(* hold before relocation, 0 where it says nothing).                       *)
(***************************************************************************)
EXTENDS Integers, Sequences, FiniteSetsExt

CONSTANTS Image,            \* a sequence of images
          StackScanLimit,   \* LDSO_STACK_SCAN_LIMIT
          AuxvScanLimit,    \* LDSO_AUXV_SCAN_LIMIT
          ScanFallback,     \* LDSO_DLFCN_DYNAMIC_SCAN_FALLBACK
          MaxObjects,       \* LDSO_DLFCN_MAX_OBJECTS
          Builtin,          \* the address of each builtin symbol
          DlName,           \* file names passed to dlopen
          MaxRefs,          \* bound: references to an object
          NoName, Nothing

ObjectSlot == 0..(MaxObjects - 1)
PointerMax == -1            \* UINT64_MAX

VARIABLES
    img,                    \* which image it is
    stage,                  \* what ldso_stage0_bootstrap does next
    g_ldso_stage0_state,
    dynamic_info,           \* the dynamic section, once it is parsed
    g_ldso_dlfcn_objects,
    word,                   \* the words of the image, by offset
    index,                  \* in ldso_elf_run_init_sequence; 0 before DT_INIT
    ran,                    \* history: the initialisers called so far, in order
    g_ldso_dlfcn_error_ready

ldsoVars == <<img, stage, g_ldso_stage0_state, dynamic_info, g_ldso_dlfcn_objects, word, index, ran,
              g_ldso_dlfcn_error_ready>>

-----------------------------------------------------------------------------
(* The initial stack. *)
ldso_find_auxv(m) ==
    IF m.argv_ok /\ m.envs < StackScanLimit THEN m.auxv ELSE Nothing

(* The value of the first entry with the key, before AT_NULL. *)
ldso_auxv_lookup(auxv, key) ==
    LET hits == {i \in 1..Len(auxv) :
                    /\ auxv[i][1] = key /\ i <= AuxvScanLimit
                    /\ \A j \in 1..i : auxv[j][1] # "AT_NULL"}
    IN  IF hits = {} THEN 0 ELSE auxv[Min(hits)][2]

-----------------------------------------------------------------------------
(* ldso_elf.c.  The segment of a kind is the first of its type. *)
First(s, type) ==
    LET hits == {i \in 1..Len(s) : s[i][1] = type}
    IN  IF hits = {} THEN Nothing ELSE s[Min(hits)][2]

ldso_elf_classify_phdrs(phdrs) ==
    [load_count |-> Len(SelectSeq(phdrs, LAMBDA p : p[1] = "PT_LOAD")),
     phdr |-> First(phdrs, "PT_PHDR"),
     dynamic |-> First(phdrs, "PT_DYNAMIC"),
     relro |-> First(phdrs, "PT_GNU_RELRO")]

ldso_compute_load_bias(layout, at_phdr) ==
    IF layout.phdr = Nothing \/ at_phdr < layout.phdr THEN 0 ELSE at_phdr - layout.phdr

(* Entries up to DT_NULL count, the last one with a tag. *)
tagged(m, tag) ==
    {i \in 1..Len(m.dyn) : m.dyn[i][1] = tag /\ \A j \in 1..i : m.dyn[j][1] # "DT_NULL"}

dyn(m, tag) == IF tagged(m, tag) = {} THEN 0 ELSE m.dyn[Max(tagged(m, tag))][2]

(* A pointer of the section: null when there is no entry, and when the     *)
(* biased address comes to 0.                                              *)
pointer(m, tag, load_bias) == IF tagged(m, tag) = {} THEN 0 ELSE load_bias + dyn(m, tag)

(* Sizes are in entries. *)
ldso_elf_parse_dynamic(m, layout, load_bias) ==
    LET null(tag) == pointer(m, tag, load_bias) = 0
    IN  IF \/ layout.dynamic = Nothing
           \/ null("DT_SYMTAB") \/ null("DT_STRTAB") \/ dyn(m, "DT_SYMENT") # 1
        THEN Nothing
        ELSE [symtab |-> m.symtab,
              nchain |-> IF null("DT_HASH") THEN 0 ELSE Len(m.symtab) + 1,
              strsz |-> dyn(m, "DT_STRSZ"),
              rela |-> IF null("DT_RELA") \/ dyn(m, "DT_RELAENT") # 1 THEN <<>>
                       ELSE SubSeq(m.rela, 1, dyn(m, "DT_RELASZ")),
              jmprel |-> IF null("DT_JMPREL") \/ dyn(m, "DT_PLTREL") # 7 THEN <<>>
                         ELSE SubSeq(m.jmprel, 1, dyn(m, "DT_PLTRELSZ")),
              init_func |-> pointer(m, "DT_INIT", load_bias),
              init_array |-> IF null("DT_INIT_ARRAY") THEN <<>>
                             ELSE SubSeq(m.init_array, 1, dyn(m, "DT_INIT_ARRAYSZ"))]

(* The name of a symbol; no offset is below a DT_STRSZ of 0. *)
st_name(info, sym) == IF info.strsz = 0 THEN NoName ELSE info.symtab[sym].name

Img == Image[img]
Layout == ldso_elf_classify_phdrs(Img.phdrs)
Bias == g_ldso_stage0_state.load_bias

-----------------------------------------------------------------------------
(* ldso_dlfcn.c: look-up. *)
ldso_object_find_by_name(objects, name) ==
    LET hits == {s \in ObjectSlot : objects[s].in_use /\ objects[s].name = name}
    IN  IF hits = {} THEN Nothing ELSE Min(hits)

ldso_object_find_free_slot(objects) ==
    LET free == {s \in ObjectSlot : ~objects[s].in_use}
    IN  IF free = {} THEN Nothing ELSE Min(free)

(* The first symbol with the name decides, even when it is undefined.      *)
(* Without a hash table the scan goes on to a fixed limit; what it reads   *)
(* beyond the table is taken to have no name that is looked up.            *)
ldso_dynamic_object_resolve_symbol(info, load_bias, name) ==
    LET symbol_count == IF info.nchain = 0 THEN ScanFallback ELSE info.nchain
        hits == {i \in 1..Len(info.symtab) : i < symbol_count /\ st_name(info, i) = name}
    IN  IF hits = {} \/ ~info.symtab[Min(hits)].defined THEN Nothing
        ELSE load_bias + info.symtab[Min(hits)].value

ldso_builtin_object_resolve_symbol(name) ==
    IF name \in DOMAIN Builtin THEN Builtin[name] ELSE Nothing

ldso_object_resolve_symbol(object, name) ==
    IF object.kind = "DYNAMIC"
    THEN ldso_dynamic_object_resolve_symbol(object.dynamic_info, object.load_bias, name)
    ELSE ldso_builtin_object_resolve_symbol(name)

(* Objects are asked in the order of their slots; the address 0 is none. *)
FirstAnswer(answers) ==
    LET hits == {s \in ObjectSlot : answers[s] # Nothing}
    IN  IF hits = {} \/ answers[Min(hits)] = 0 THEN Nothing ELSE answers[Min(hits)]

ldso_dlfcn_resolve_global(objects, name) ==
    FirstAnswer([s \in ObjectSlot |->
                    IF ~objects[s].in_use THEN Nothing
                    ELSE ldso_object_resolve_symbol(objects[s], name)])

-----------------------------------------------------------------------------
(* Relocation.  The resolver is ldso_dlfcn_resolve_global on the objects. *)
ldso_elf_symbol_value(info, load_bias, objects, sym) ==
    IF sym = 0 THEN Nothing
    ELSE IF info.symtab[sym].defined THEN load_bias + info.symtab[sym].value
    ELSE IF st_name(info, sym) = NoName THEN Nothing
    ELSE ldso_dlfcn_resolve_global(objects, st_name(info, sym))

Symbolic == {"R_X86_64_64", "R_X86_64_GLOB_DAT", "R_X86_64_JUMP_SLOT"}

(* One entry of a relocation table, on the words and counts r; value gives *)
(* the value of each symbol.                                               *)
apply_rela(r, e, load_bias, value) ==
    LET write(x) == [r EXCEPT !.word = [@ EXCEPT ![e.offset] = x], !.applied = @ + 1]
        resolve(v) ==
            IF v = Nothing THEN [r EXCEPT !.unresolved = @ + 1] ELSE write(v + e.addend)
    IN  CASE e.type = "R_X86_64_NONE" -> r
          [] e.type = "R_X86_64_RELATIVE" -> write(load_bias + e.addend)
          [] e.type \in Symbolic -> resolve(value[e.sym])
          [] OTHER -> [r EXCEPT !.unsupported = @ + 1]

ldso_elf_apply_rela_range(r, entries, load_bias, value) ==
    LET after[i \in 0..Len(entries)] ==
            IF i = 0 THEN r ELSE apply_rela(after[i - 1], entries[i], load_bias, value)
    IN  after[Len(entries)]

(* Mutant: the relocations of the procedure linkage table are left out. *)
apply_rela_only(r, info, load_bias, value) ==
    ldso_elf_apply_rela_range(r, info.rela, load_bias, value)

ldso_elf_apply_relocations(r, info, load_bias, value) ==
    ldso_elf_apply_rela_range(ldso_elf_apply_rela_range(r, info.rela, load_bias, value),
                              info.jmprel, load_bias, value)

(* What relocating the words makes of them, with the objects of now. *)
Relocated(words, info, load_bias, objects) ==
    ldso_elf_apply_relocations(
        [word |-> words, applied |-> 0, unresolved |-> 0, unsupported |-> 0], info, load_bias,
        [sym \in 0..Len(info.symtab) |-> ldso_elf_symbol_value(info, load_bias, objects, sym)])

-----------------------------------------------------------------------------
(* ldso_stage0_bootstrap. *)
Offsets == UNION {{e.offset : e \in Range(m.rela) \cup Range(m.jmprel)}
                     \cup Range(m.init_array) : m \in Range(Image)}

(* A slot of the table of objects, free or filled. *)
object_reset == [in_use |-> FALSE, kind |-> "NONE", name |-> NoName, refcount |-> 0,
                 dynamic_info |-> Nothing, load_bias |-> 0]
object(name, kind, info, load_bias) ==
    [in_use |-> TRUE, kind |-> kind, name |-> name, refcount |-> 1,
     dynamic_info |-> info, load_bias |-> load_bias]

before(m, o) == IF o \in DOMAIN m.data THEN m.data[o] ELSE 0
FileWords == [o \in Offsets |-> before(Img, o)]

ldso_stage0_state_reset ==
    /\ img \in DOMAIN Image
    /\ stage = "stack"
    /\ g_ldso_stage0_state =
          [ready |-> FALSE, load_bias |-> 0, load_count |-> 0, registered |-> FALSE,
           attempted |-> 0, loaded |-> 0, failed |-> 0,
           applied |-> 0, unresolved |-> 0, unsupported |-> 0, init_completed |-> FALSE]
    /\ dynamic_info = Nothing
    /\ g_ldso_dlfcn_objects = [s \in ObjectSlot |-> object_reset]
    /\ word = FileWords
    /\ index = 0
    /\ ran = <<>>
    /\ g_ldso_dlfcn_error_ready = FALSE

(* The auxiliary vector and the program headers, or an early return. *)
ReadHeaders ==
    LET auxv == ldso_find_auxv(Img)
        at_phdr == ldso_auxv_lookup(auxv, "AT_PHDR")
        usable == /\ auxv # Nothing
                  /\ at_phdr # 0 /\ ldso_auxv_lookup(auxv, "AT_PHNUM") # 0
                  /\ ldso_auxv_lookup(auxv, "AT_PHENT") = 1
    IN  /\ stage = "stack"
        /\ stage' = IF usable THEN "dynamic" ELSE "returned"
        /\ g_ldso_stage0_state' =
              IF ~usable THEN g_ldso_stage0_state
              ELSE [g_ldso_stage0_state EXCEPT
                      !.load_bias = ldso_compute_load_bias(Layout, at_phdr),
                      !.load_count = Layout.load_count]
        /\ UNCHANGED <<img, dynamic_info, g_ldso_dlfcn_objects, word, index, ran,
                       g_ldso_dlfcn_error_ready>>

(* ldso_dlfcn_register_builtin_object: an object of the same name is       *)
(* replaced, with one reference.                                           *)
register(objects, name) ==
    LET same == ldso_object_find_by_name(objects, name)
        slot == IF same # Nothing THEN same ELSE ldso_object_find_free_slot(objects)
    IN  IF slot = Nothing THEN objects
        ELSE [objects EXCEPT ![slot] = object(name, "BUILTIN", Nothing, 0)]

ldso_stage0_register_builtin_symbols(objects) ==
    register(register(objects, "stage0-builtins"), "libc.so.6")

(* ldso_dlfcn_init and the registration; without a usable dynamic section  *)
(* the bootstrap ends here.                                                *)
InitObjects ==
    LET parsed == ldso_elf_parse_dynamic(Img, Layout, Bias)
        main == [g_ldso_dlfcn_objects EXCEPT
                    ![0] = object("<main>", "DYNAMIC", parsed, Bias)]
        objects == ldso_stage0_register_builtin_symbols(main)
        ok == ldso_object_find_by_name(objects, "libc.so.6") # Nothing
    IN  /\ stage = "dynamic"
        /\ dynamic_info' = parsed
        /\ IF parsed = Nothing
           THEN /\ stage' = "returned"
                /\ g_ldso_stage0_state' = [g_ldso_stage0_state EXCEPT !.ready = TRUE]
                /\ UNCHANGED <<g_ldso_dlfcn_objects, g_ldso_dlfcn_error_ready>>
           ELSE /\ stage' = IF ok THEN "preload" ELSE "relocate"
                /\ g_ldso_dlfcn_objects' = objects
                /\ g_ldso_stage0_state' = [g_ldso_stage0_state EXCEPT !.registered = ok]
                /\ g_ldso_dlfcn_error_ready' = FALSE
        /\ UNCHANGED <<img, word, index, ran>>

(* ldso_dlopen of a name, NoName for a null pointer. *)
ldso_dlopen(name) ==
    LET s == ldso_object_find_by_name(g_ldso_dlfcn_objects,
                                      IF name = NoName THEN "<main>" ELSE name)
    IN  IF s = Nothing
        THEN /\ g_ldso_dlfcn_error_ready' = TRUE
             /\ UNCHANGED g_ldso_dlfcn_objects
        ELSE /\ g_ldso_dlfcn_objects' = [g_ldso_dlfcn_objects EXCEPT ![s].refcount = @ + 1]
             /\ g_ldso_dlfcn_error_ready' = FALSE

(* ldso_stage0_apply_ld_preload, one name of the list at a time. *)
Preload ==
    LET n == g_ldso_stage0_state.attempted + 1
        found == ldso_object_find_by_name(g_ldso_dlfcn_objects, Img.preload[n]) # Nothing
    IN  /\ stage = "preload"
        /\ IF n > Len(Img.preload)
           THEN /\ stage' = "relocate"
                /\ UNCHANGED <<g_ldso_stage0_state, g_ldso_dlfcn_objects,
                               g_ldso_dlfcn_error_ready>>
           ELSE /\ ldso_dlopen(Img.preload[n])
                /\ g_ldso_stage0_state' = [g_ldso_stage0_state EXCEPT
                        !.attempted = n,
                        !.loaded = IF found THEN @ + 1 ELSE @,
                        !.failed = IF found THEN @ ELSE @ + 1]
                /\ UNCHANGED stage
        /\ UNCHANGED <<img, dynamic_info, word, index, ran>>

Relocate ==
    LET r == Relocated(word, dynamic_info, Bias, g_ldso_dlfcn_objects)
    IN  /\ stage = "relocate"
        /\ stage' = "init"
        /\ word' = r.word
        /\ g_ldso_stage0_state' = [g_ldso_stage0_state EXCEPT
              !.applied = r.applied, !.unresolved = r.unresolved, !.unsupported = r.unsupported]
        /\ UNCHANGED <<img, dynamic_info, g_ldso_dlfcn_objects, index, ran,
                       g_ldso_dlfcn_error_ready>>

is_hole(p) == p = 0 \/ p = PointerMax

(* The array is read as it is called, after relocation. *)
RunInit ==
    LET called == IF index = 0
                  THEN IF dynamic_info.init_func = 0 THEN <<>> ELSE <<dynamic_info.init_func>>
                  ELSE LET p == word[dynamic_info.init_array[index]]
                       IN  IF is_hole(p) THEN <<>> ELSE <<p>>
    IN  /\ stage = "init"
        /\ IF index > Len(dynamic_info.init_array)
           THEN /\ stage' = "returned"
                /\ g_ldso_stage0_state' = [g_ldso_stage0_state EXCEPT
                        !.init_completed = TRUE, !.ready = TRUE]
                /\ UNCHANGED <<index, ran>>
           ELSE /\ index' = index + 1 /\ ran' = ran \o called
                /\ UNCHANGED <<stage, g_ldso_stage0_state>>
        /\ UNCHANGED <<img, dynamic_info, g_ldso_dlfcn_objects, word, g_ldso_dlfcn_error_ready>>

-----------------------------------------------------------------------------
(* The dl functions, called by an initialiser. *)
Calling == stage = "init" /\ ran # <<>>
callVars == <<img, stage, g_ldso_stage0_state, dynamic_info, word, index, ran>>

Dlopen(name) ==
    /\ Calling
    /\ \A s \in ObjectSlot : g_ldso_dlfcn_objects[s].refcount < MaxRefs
    /\ ldso_dlopen(name)
    /\ UNCHANGED callVars

RTLD_DEFAULT == -2          \* two values that are not handles
RTLD_NEXT == -1

(* A symbol is looked up everywhere, or in the object of a handle. *)
ldso_dlsym(handle, name) ==
    LET valid == handle \in ObjectSlot /\ g_ldso_dlfcn_objects[handle].in_use
        address == IF handle = RTLD_DEFAULT
                   THEN ldso_dlfcn_resolve_global(g_ldso_dlfcn_objects, name)
                   ELSE IF handle # RTLD_NEXT /\ valid
                   THEN ldso_object_resolve_symbol(g_ldso_dlfcn_objects[handle], name)
                   ELSE Nothing
    IN  /\ Calling
        /\ g_ldso_dlfcn_error_ready' = (address = Nothing)
        /\ UNCHANGED <<callVars, g_ldso_dlfcn_objects>>

has_reference(s) ==
    g_ldso_dlfcn_objects[s].in_use /\ g_ldso_dlfcn_objects[s].refcount # 0

(* Mutant: the slot is freed with the last reference. *)
drop_and_free(o) ==
    IF o.refcount = 1 THEN object_reset ELSE [o EXCEPT !.refcount = @ - 1]

drop_reference(o) == [o EXCEPT !.refcount = @ - 1]

(* An object that nobody refers to stays registered. *)
ldso_dlclose(s) ==
    /\ Calling
    /\ IF has_reference(s)
       THEN /\ g_ldso_dlfcn_objects' = [g_ldso_dlfcn_objects EXCEPT ![s] = drop_reference(@)]
            /\ g_ldso_dlfcn_error_ready' = FALSE
       ELSE /\ g_ldso_dlfcn_error_ready' = TRUE
            /\ UNCHANGED g_ldso_dlfcn_objects
    /\ UNCHANGED callVars

ldso_dlerror ==
    /\ Calling
    /\ g_ldso_dlfcn_error_ready' = FALSE
    /\ UNCHANGED <<callVars, g_ldso_dlfcn_objects>>

LdsoNext ==
    \/ ReadHeaders \/ InitObjects \/ Preload \/ Relocate \/ RunInit
    \/ \E name \in DlName \cup {NoName} : Dlopen(name)
    \/ \E handle \in ObjectSlot \cup {RTLD_DEFAULT, RTLD_NEXT}, name \in DOMAIN Builtin :
          ldso_dlsym(handle, name)
    \/ \E s \in ObjectSlot : ldso_dlclose(s)
    \/ ldso_dlerror

LdsoSpec == ldso_stage0_state_reset /\ [][LdsoNext]_ldsoVars

-----------------------------------------------------------------------------
(* The entries that the image really asks for, in the order of the two     *)
(* tables, when the loader can find them.                                  *)
Entries == dynamic_info.rela \o dynamic_info.jmprel

(* What a program means by a symbol: its own definition, else the one of   *)
(* the C library.                                                          *)
Meaning(sym) ==
    IF sym = 0 THEN Nothing
    ELSE LET s == Img.symtab[sym]
         IN  IF s.defined THEN Bias + s.value
             ELSE IF st_name(dynamic_info, sym) \in DOMAIN Builtin THEN Builtin[s.name] ELSE Nothing

(* The entries that can be carried out, and the word at an offset after    *)
(* the last of them.                                                       *)
Good == {i \in 1..Len(Entries) :
            \/ Entries[i].type = "R_X86_64_RELATIVE"
            \/ Entries[i].type \in Symbolic /\ Meaning(Entries[i].sym) # Nothing}

Final(o) ==
    LET mine == {i \in Good : Entries[i].offset = o}
        e == Entries[Max(mine)]
    IN  IF mine = {} THEN before(Img, o)
        ELSE e.addend + IF e.type \in Symbolic THEN Meaning(e.sym) ELSE Bias

(* When the first initialiser runs, every word that a relocation names     *)
(* holds what the last relocation that could be carried out asks for.  A   *)
(* word for which there is none, because its symbols are not found or its  *)
(* kind is not supported, still holds what the file holds.  Each entry is  *)
(* counted once, as applied, unresolved or unsupported                     *)
(* (ldso_elf_apply_relocations).                                           *)
RelocatedBeforeInit ==
    stage = "init" \/ g_ldso_stage0_state.init_completed =>
        /\ \A o \in Offsets : word[o] = Final(o)
        /\ g_ldso_stage0_state.applied = Cardinality(Good)
        /\ g_ldso_stage0_state.applied + g_ldso_stage0_state.unresolved
              + g_ldso_stage0_state.unsupported
              = Cardinality({i \in 1..Len(Entries) : Entries[i].type # "R_X86_64_NONE"})

(* The initialisers run in order, each once, at the addresses that the     *)
(* relocations of the array leave: DT_INIT before the array, whose empty   *)
(* and all-ones words are not called; and all of them have run when the    *)
(* loader says it has finished (ldso_elf_run_init_sequence).               *)
InitialisersInOrder ==
    ran # <<>> \/ g_ldso_stage0_state.init_completed =>
        LET array == [i \in 1..Len(dynamic_info.init_array) |-> Final(dynamic_info.init_array[i])]
            all == (IF dynamic_info.init_func # 0 THEN <<dynamic_info.init_func>> ELSE <<>>)
                   \o SelectSeq(array, LAMBDA p : p \notin {0, PointerMax})
        IN  /\ Len(ran) <= Len(all) /\ ran = SubSeq(all, 1, Len(ran))
            /\ g_ldso_stage0_state.init_completed => ran = all

(* No initialiser runs before the relocations that can be carried out are, *)
(* and they run in order, each once, at the addresses that leaves.  The    *)
(* bootstrap goes on when entries are unresolved or unsupported, as their  *)
(* counts tell: such a word is left as the file has it, and called in the  *)
(* array (ldso_elf_apply_relocations, ldso_elf_run_init_sequence).         *)
StartsSound == RelocatedBeforeInit /\ InitialisersInOrder

(* No binding goes stale while the initialisers run.  They may close what  *)
(* they like as often as they like, the reference an object has of its own *)
(* and those of LD_PRELOAD included: the objects still give every symbol   *)
(* the address that relocation gave it, so that relocating the words of    *)
(* the file once more would give the words as they are (ldso_dlclose only  *)
(* counts down, ldso_dlfcn_resolve_global asks every object in use).       *)
BindingsStay ==
    stage = "init" =>
        word = Relocated(FileWords, dynamic_info, Bias, g_ldso_dlfcn_objects).word

-----------------------------------------------------------------------------
(* The inductive invariant behind BindingsStay: the words are those of the *)
(* file until they are relocated, and the slots have the fields that a     *)
(* look-up reads.                                                          *)
Slots(objects) ==
    /\ DOMAIN objects = ObjectSlot
    /\ \A s \in ObjectSlot :
          {"in_use", "kind", "dynamic_info", "load_bias"} \subseteq DOMAIN objects[s]

LdsoInv ==
    /\ Slots(g_ldso_dlfcn_objects)
    /\ "load_bias" \in DOMAIN g_ldso_stage0_state
    /\ stage \notin {"init", "returned"} => word = FileWords
    /\ BindingsStay

=============================================================================
