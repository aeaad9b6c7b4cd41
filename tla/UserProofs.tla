----------------------------- MODULE UserProofs -----------------------------
(***************************************************************************)
(* Proofs about what surrounds the kernel: the C library's tables and      *)
(* memory pool, the dynamic loader and the UEFI loader.  They hold for any *)
(* table sizes, images, memory maps and firmware.                          *)
(***************************************************************************)
EXTENDS Libc, Ldso, Uefi, TLAPS

-----------------------------------------------------------------------------
(* The C library's tables and memory pool. *)

(* gnuos_align_up grants what was asked for, unless the sum wraps. *)
LEMMA AlignUp ==
    ASSUME NEW n \in 0..(SizeEnd - 1)
    PROVE  /\ gnuos_align_up(n) \in Nat
           /\ n <= SizeEnd - MapPage => gnuos_align_up(n) >= n
<1> DEFINE sum == n + MapPage - 1
           x == sum % SizeEnd
<1>1. sum \in Nat /\ MapPage \in Nat \ {0} /\ SizeEnd \in Nat \ {0}
  BY LibcAssumption DEF LibcAssumption
<1>2. x \in Nat
  BY <1>1
<1>3. n <= SizeEnd - MapPage => x = sum
  BY <1>1
<1>4. gnuos_align_up(n) = (x \div MapPage) * MapPage
  BY Zenon DEF gnuos_align_up
<1> HIDE DEF x
<1>5. /\ x \div MapPage \in Nat /\ (x \div MapPage) * MapPage \in Nat
      /\ x < (x \div MapPage) * MapPage + MapPage
  BY <1>1, <1>2
<1> QED
  BY <1>1, <1>2, <1>3, <1>4, <1>5

(* mmap hands out the next part of the pool. *)
LEMMA MapKeeps ==
    ASSUME LibcInv, NEW length \in MapLength, mmap(length), UNCHANGED fdVars
    PROVE  LibcInv'
<1> USE DEF LibcInv, LibcExact
<1> DEFINE aligned == gnuos_align_up(length)
           next == g_mmap_pool_next
           new == <<next, aligned, length>>
<1>1. /\ length # 0 /\ aligned <= PoolSize - next
      /\ g_mmap_pool_next' = next + aligned /\ mappings' = mappings \cup {new}
  BY Zenon DEF mmap
<1>2. /\ length \in 0..(SizeEnd - 1) /\ PoolSize \in Nat /\ next \in 0..PoolSize
  BY Zenon, LibcAssumption DEF LibcAssumption, PoolInv
<1>3. aligned \in Nat /\ (length <= SizeEnd - MapPage => aligned >= length)
  BY Zenon, <1>2, AlignUp
<1>4. \A m \in mappings : m[1] \in Nat /\ m[2] \in Nat /\ m[3] \in Nat /\ m[1] + m[2] <= next
  BY Zenon DEF PoolInv
<1>5. new \in Nat \X Nat \X Nat /\ new[1] = next /\ new[2] = aligned /\ new[3] = length
  BY <1>2, <1>3
<1> HIDE DEF aligned, next
<1>6. PoolInv'
  <2>1. g_mmap_pool_next' \in 0..PoolSize
    BY <1>1, <1>2, <1>3
  <2>2. mappings' \subseteq Nat \X Nat \X Nat
    BY Zenon, <1>1, <1>5 DEF PoolInv
  <2>3. ASSUME NEW m \in mappings' PROVE m[1] + m[2] <= g_mmap_pool_next'
    BY <1>1, <1>2, <1>3, <1>4, <1>5
  <2> QED
    BY Zenon, <2>1, <2>2, <2>3 DEF PoolInv
<1>7. MappingsApart'
  <2> SUFFICES ASSUME NEW m \in mappings'
               PROVE  /\ m[1] + m[2] <= PoolSize
                      /\ m[3] <= SizeEnd - MapPage => m[2] >= m[3]
                      /\ \A n \in mappings' : n # m => m[1] + m[2] <= n[1] \/ n[1] + n[2] <= m[1]
    BY Zenon DEF MappingsApart
  <2>1. CASE m \in mappings
    <3>1. /\ m[1] + m[2] <= PoolSize /\ (m[3] <= SizeEnd - MapPage => m[2] >= m[3])
          /\ \A n \in mappings : n # m => m[1] + m[2] <= n[1] \/ n[1] + n[2] <= m[1]
      BY Zenon, <2>1 DEF MappingsApart
    <3>2. m[1] + m[2] <= new[1]
      BY Zenon, <1>4, <1>5, <2>1
    <3> HIDE DEF new
    <3> QED
      BY Zenon, <1>1, <3>1, <3>2
  <2>2. CASE m = new
    <3>1. /\ m[1] + m[2] <= PoolSize /\ (m[3] <= SizeEnd - MapPage => m[2] >= m[3])
      BY <1>1, <1>2, <1>3, <1>5, <2>2
    <3>2. \A n \in mappings : n[1] + n[2] <= m[1]
      BY Zenon, <1>4, <1>5, <2>2
    <3> HIDE DEF new
    <3> QED
      BY Zenon, <1>1, <2>2, <3>1, <3>2
  <2> QED
    BY Zenon, <1>1, <2>1, <2>2
<1>8. TablesTyped' /\ DescriptorsExact'
  BY Zenon DEF fdVars, TablesTyped, DescriptorsExact
<1> QED
  BY Zenon, <1>6, <1>7, <1>8
(* A call that leaves the pool alone keeps what is said of mappings. *)
LEMMA PoolKept ==
    ASSUME LibcInv, UNCHANGED mapVars
    PROVE  PoolInv' /\ MappingsApart'
  BY Zenon DEF LibcInv, LibcExact, PoolInv, MappingsApart, mapVars

(* An entry of a socket is written and so is what the program believes. *)
LEMMA SocketWritten ==
    ASSUME LibcInv, NEW i \in SocketIndex, NEW o \in SocketEntry, o.in_use,
           g_socket_table' = [g_socket_table EXCEPT ![i] = o],
           UNCHANGED g_file_table,
           fds' = [f \in DOMAIN fds \cup {SocketBase + i} |->
                      IF f = SocketBase + i THEN o ELSE fds[f]]
    PROVE  TablesTyped' /\ DescriptorsExact'
<1> USE DEF LibcInv, LibcExact
<1>1. \A j \in SocketIndex : /\ SocketBase + j \in Int /\ (SocketBase + j = SocketBase + i => j = i)
                             /\ \A k \in FileIndex : SocketBase + j # FileBase + k
  BY LibcAssumption DEF LibcAssumption, SocketIndex, FileIndex
<1>2. TablesTyped'
  BY Zenon DEF TablesTyped
<1>3. /\ g_socket_table'[i] = o
      /\ \A j \in SocketIndex : j # i => g_socket_table'[j] = g_socket_table[j]
  BY Zenon DEF TablesTyped
<1>4. DOMAIN fds' = DOMAIN fds \cup {SocketBase + i}
  BY Zenon
<1>5. fds'[SocketBase + i] = o /\ \A f \in DOMAIN fds : f # SocketBase + i => fds'[f] = fds[f]
  BY Zenon
<1>6. DOMAIN fds' = {SocketBase + j : j \in {k \in SocketIndex : g_socket_table'[k].in_use}}
               \cup {FileBase + j : j \in {k \in FileIndex : g_file_table'[k].in_use}}
  BY <1>1, <1>3, <1>4 DEF DescriptorsExact
<1>7. ASSUME NEW j \in SocketIndex, g_socket_table'[j].in_use
      PROVE  fds'[SocketBase + j] = g_socket_table'[j]
  <2>1. CASE j = i
    BY Zenon, <1>3, <1>5, <2>1
  <2>2. CASE j # i
    BY Zenon, <1>1, <1>3, <1>5, <1>7, <2>2 DEF DescriptorsExact
  <2> QED
    BY Zenon, <2>1, <2>2
<1>8. ASSUME NEW j \in FileIndex, g_file_table'[j].in_use
      PROVE  fds'[FileBase + j] = g_file_table'[j]
  BY Zenon, <1>1, <1>5, <1>8 DEF DescriptorsExact
<1> QED
  BY Zenon, <1>2, <1>6, <1>7, <1>8 DEF DescriptorsExact

(* The same for a file. *)
LEMMA FileWritten ==
    ASSUME LibcInv, NEW i \in FileIndex, NEW o \in FileEntry, o.in_use,
           g_file_table' = [g_file_table EXCEPT ![i] = o],
           UNCHANGED g_socket_table,
           fds' = [f \in DOMAIN fds \cup {FileBase + i} |->
                      IF f = FileBase + i THEN o ELSE fds[f]]
    PROVE  TablesTyped' /\ DescriptorsExact'
<1> USE DEF LibcInv, LibcExact
<1>1. \A j \in FileIndex : /\ FileBase + j \in Int /\ (FileBase + j = FileBase + i => j = i)
                           /\ \A k \in SocketIndex : SocketBase + k # FileBase + j
  BY LibcAssumption DEF LibcAssumption, SocketIndex, FileIndex
<1>2. TablesTyped'
  BY Zenon DEF TablesTyped
<1>3. /\ g_file_table'[i] = o
      /\ \A j \in FileIndex : j # i => g_file_table'[j] = g_file_table[j]
  BY Zenon DEF TablesTyped
<1>4. DOMAIN fds' = DOMAIN fds \cup {FileBase + i}
  BY Zenon
<1>5. fds'[FileBase + i] = o /\ \A f \in DOMAIN fds : f # FileBase + i => fds'[f] = fds[f]
  BY Zenon
<1>6. DOMAIN fds' = {SocketBase + j : j \in {k \in SocketIndex : g_socket_table'[k].in_use}}
               \cup {FileBase + j : j \in {k \in FileIndex : g_file_table'[k].in_use}}
  BY <1>1, <1>3, <1>4 DEF DescriptorsExact
<1>7. ASSUME NEW j \in FileIndex, g_file_table'[j].in_use
      PROVE  fds'[FileBase + j] = g_file_table'[j]
  <2>1. CASE j = i
    BY Zenon, <1>3, <1>5, <2>1
  <2>2. CASE j # i
    BY Zenon, <1>1, <1>3, <1>5, <1>7, <2>2 DEF DescriptorsExact
  <2> QED
    BY Zenon, <2>1, <2>2
<1>8. ASSUME NEW j \in SocketIndex, g_socket_table'[j].in_use
      PROVE  fds'[SocketBase + j] = g_socket_table'[j]
  BY Zenon, <1>1, <1>5, <1>8 DEF DescriptorsExact
<1> QED
  BY Zenon, <1>2, <1>6, <1>7, <1>8 DEF DescriptorsExact

(* What the functions on an open socket have in common. *)
LEMMA SocketChanged ==
    ASSUME LibcInv, NEW i \in SocketIndex, NEW o \in SocketEntry,
           g_socket_table[i].in_use, o.in_use,
           g_socket_table' = [g_socket_table EXCEPT ![i] = o],
           UNCHANGED g_file_table,
           fds' = [fds EXCEPT ![SocketBase + i] = o]
    PROVE  TablesTyped' /\ DescriptorsExact'
<1>1. SocketBase + i \in DOMAIN fds /\ fds = [f \in DOMAIN fds |-> fds[f]]
  BY Zenon DEF LibcInv, LibcExact, DescriptorsExact, TablesTyped
<1>2. fds' = [f \in DOMAIN fds \cup {SocketBase + i} |->
                IF f = SocketBase + i THEN o ELSE fds[f]]
  BY Zenon, <1>1
<1> QED
  BY Zenon, <1>2, SocketWritten

(* And those on an open file. *)
LEMMA FileChanged ==
    ASSUME LibcInv, NEW i \in FileIndex, NEW o \in FileEntry,
           g_file_table[i].in_use, o.in_use,
           g_file_table' = [g_file_table EXCEPT ![i] = o],
           UNCHANGED g_socket_table,
           fds' = [fds EXCEPT ![FileBase + i] = o]
    PROVE  TablesTyped' /\ DescriptorsExact'
<1>1. FileBase + i \in DOMAIN fds /\ fds = [f \in DOMAIN fds |-> fds[f]]
  BY Zenon DEF LibcInv, LibcExact, DescriptorsExact, TablesTyped
<1>2. fds' = [f \in DOMAIN fds \cup {FileBase + i} |->
                IF f = FileBase + i THEN o ELSE fds[f]]
  BY Zenon, <1>1
<1> QED
  BY Zenon, <1>2, FileWritten

(* socket and open hand out an entry that is free and write all of it. *)
LEMMA OpenKeeps ==
    ASSUME LibcInv, socket \/ open
    PROVE  TablesTyped' /\ DescriptorsExact'
<1>1. CASE socket
  <2>1. PICK i \in SocketIndex :
          /\ g_socket_table' = [g_socket_table EXCEPT ![i] = NewSocket]
          /\ Fresh(SocketBase + i, NewSocket) /\ UNCHANGED g_file_table
    BY Zenon, <1>1 DEF socket
  <2>2. NewSocket \in SocketEntry /\ NewSocket.in_use
    BY DEF NewSocket, SocketEntry
  <2> QED
    BY Zenon, <2>1, <2>2, SocketWritten DEF Fresh
<1>2. CASE open
  <2>1. PICK i \in FileIndex :
          /\ g_file_table' = [g_file_table EXCEPT ![i] = NewFile]
          /\ Fresh(FileBase + i, NewFile) /\ UNCHANGED g_socket_table
    BY Zenon, <1>2 DEF open, alloc_entry
  <2>2. NewFile \in FileEntry /\ NewFile.in_use
    BY DEF NewFile, FileEntry
  <2> QED
    BY Zenon, <2>1, <2>2, FileWritten DEF Fresh
<1> QED
  BY Zenon, <1>1, <1>2

(* listen, connect and shutdown do to the entry what the program expects   *)
(* of its descriptor.                                                      *)
LEMMA SocketKeeps ==
    ASSUME LibcInv, NEW fd \in Descriptor, listen(fd) \/ connect(fd) \/ shutdown(fd)
    PROVE  TablesTyped' /\ DescriptorsExact'
<1> DEFINE Entry(i) == g_socket_table[i]
<1>1. ASSUME NEW i \in SocketIndex, gnuos_socket_get(fd, i)
      PROVE  /\ fd = SocketBase + i /\ Entry(i).in_use /\ fds[fd] = Entry(i)
             /\ Entry(i) \in SocketEntry
  <2>1. fd = SocketBase + i /\ Entry(i).in_use
    BY <1>1, LibcAssumption DEF LibcAssumption, gnuos_socket_get, SocketIndex, Descriptor
  <2> QED
    BY Zenon, <2>1 DEF LibcInv, LibcExact, DescriptorsExact, TablesTyped
<1>2. CASE listen(fd)
  <2>1. PICK i \in SocketIndex :
          /\ gnuos_socket_get(fd, i)
          /\ g_socket_table' = [g_socket_table EXCEPT ![i] = [Entry(i) EXCEPT !.listening = TRUE]]
          /\ fds' = [fds EXCEPT ![fd] = [fds[fd] EXCEPT !.listening = TRUE]]
          /\ UNCHANGED g_file_table
    BY Zenon, <1>2 DEF listen, SetSocket
  <2> DEFINE o == [Entry(i) EXCEPT !.listening = TRUE]
  <2>2. o \in SocketEntry /\ o.in_use
    BY Zenon, <1>1, <2>1 DEF SocketEntry
  <2> HIDE DEF Entry
  <2> QED
    BY Zenon, <1>1, <2>1, <2>2, SocketChanged DEF Entry
<1>3. CASE connect(fd)
  <2>1. PICK i \in SocketIndex :
          /\ gnuos_socket_get(fd, i)
          /\ g_socket_table' = [g_socket_table EXCEPT ![i] = [Entry(i) EXCEPT !.connected = TRUE]]
          /\ fds' = [fds EXCEPT ![fd] = [fds[fd] EXCEPT !.connected = TRUE]]
          /\ UNCHANGED g_file_table
    BY Zenon, <1>3 DEF connect, SetSocket
  <2> DEFINE o == [Entry(i) EXCEPT !.connected = TRUE]
  <2>2. o \in SocketEntry /\ o.in_use
    BY Zenon, <1>1, <2>1 DEF SocketEntry
  <2> QED
    BY Zenon, <1>1, <2>1, <2>2, SocketChanged
<1>4. CASE shutdown(fd)
  <2>1. PICK how \in 0..2, i \in SocketIndex :
          /\ gnuos_socket_get(fd, i)
          /\ g_socket_table' = [g_socket_table EXCEPT ![i] = [Entry(i) EXCEPT !.shutdown_how = how]]
          /\ fds' = [fds EXCEPT ![fd] = [fds[fd] EXCEPT !.shutdown_how = how]]
          /\ UNCHANGED g_file_table
    BY Zenon, <1>4 DEF shutdown, SetSocket
  <2> DEFINE o == [Entry(i) EXCEPT !.shutdown_how = how]
  <2>2. o \in SocketEntry /\ o.in_use
    BY <1>1, <2>1 DEF SocketEntry
  <2> QED
    BY Zenon, <1>1, <2>1, <2>2, SocketChanged
<1> QED
  BY Zenon, <1>2, <1>3, <1>4

(* The entry of a file after a write. *)
LEMMA EntryWritten ==
    ASSUME NEW e \in FileEntry, NEW a \in Int, NEW b \in Int
    PROVE  /\ [e EXCEPT !.offset = a, !.size = b] \in FileEntry
           /\ [e EXCEPT !.offset = a, !.size = b].in_use = e.in_use
<1> DEFINE moved == [e EXCEPT !.offset = a]
<1>1. moved \in FileEntry /\ moved.in_use = e.in_use
  BY Zenon DEF FileEntry
<1>2. [e EXCEPT !.offset = a, !.size = b] = [moved EXCEPT !.size = b]
  BY ZenonT(40)
<1> HIDE DEF moved
<1>3. [moved EXCEPT !.size = b] \in FileEntry /\ [moved EXCEPT !.size = b].in_use = moved.in_use
  BY Zenon, <1>1 DEF FileEntry
<1> QED
  BY Zenon, <1>1, <1>2, <1>3

(* And after close. *)
LEMMA EntryClosed ==
    ASSUME NEW e \in FileEntry
    PROVE  /\ [e EXCEPT !.in_use = FALSE, !.offset = 0] \in FileEntry
           /\ [e EXCEPT !.in_use = FALSE, !.offset = 0].in_use = FALSE
<1> DEFINE closed == [e EXCEPT !.in_use = FALSE]
<1>1. closed \in FileEntry /\ closed.in_use = FALSE
  BY Zenon DEF FileEntry
<1>2. [e EXCEPT !.in_use = FALSE, !.offset = 0] = [closed EXCEPT !.offset = 0]
  BY ZenonT(40)
<1> HIDE DEF closed
<1>3. [closed EXCEPT !.offset = 0] \in FileEntry /\ [closed EXCEPT !.offset = 0].in_use = closed.in_use
  BY <1>1 DEF FileEntry
<1> QED
  BY Zenon, <1>1, <1>2, <1>3

(* read, write, lseek and fchmod likewise. *)
LEMMA FileKeeps ==
    ASSUME LibcInv, NEW fd \in Descriptor, NEW n \in Int,
           read(fd, n) \/ write(fd, n) \/ lseek(fd, n) \/ fchmod(fd)
    PROVE  TablesTyped' /\ DescriptorsExact'
<1> DEFINE Entry(i) == g_file_table[i]
<1>1. ASSUME NEW i \in FileIndex, gnuos_file_get(fd, i)
      PROVE  /\ fd = FileBase + i /\ Entry(i).in_use /\ fds[fd] = Entry(i)
             /\ Entry(i) \in FileEntry
  <2>1. fd = FileBase + i /\ Entry(i).in_use
    BY <1>1, LibcAssumption DEF LibcAssumption, gnuos_file_get, FileIndex, Descriptor
  <2> QED
    BY Zenon, <2>1 DEF LibcInv, LibcExact, DescriptorsExact, TablesTyped
<1>off. off_t(n) \in Int
  BY LibcAssumption DEF LibcAssumption, off_t
<1>2. CASE read(fd, n)
  <2>1. PICK i \in FileIndex :
          /\ gnuos_file_get(fd, i)
          /\ g_file_table' = [g_file_table EXCEPT ![i] = [Entry(i) EXCEPT !.offset = @ + off_t(n)]]
          /\ fds' = [fds EXCEPT ![fd] = [fds[fd] EXCEPT !.offset = @ + off_t(n)]]
          /\ UNCHANGED g_socket_table
    BY Zenon, <1>2 DEF read, SetFile
  <2> DEFINE o == [Entry(i) EXCEPT !.offset = @ + off_t(n)]
  <2>2. o \in FileEntry /\ o.in_use
    BY <1>1, <1>off, <2>1 DEF FileEntry
  <2> QED
    BY Zenon, <1>1, <2>1, <2>2, FileChanged
<1>3. CASE write(fd, n)
  <2> DEFINE Size(e) == IF e.offset + off_t(n) > e.size THEN e.offset + off_t(n) ELSE e.size
             After(e) == [e EXCEPT !.offset = e.offset + off_t(n), !.size = Size(e)]
  <2>1. PICK i \in FileIndex :
          /\ gnuos_file_get(fd, i)
          /\ g_file_table' = [g_file_table EXCEPT ![i] = After(Entry(i))]
          /\ fds' = [fds EXCEPT ![fd] = After(fds[fd])]
          /\ UNCHANGED g_socket_table
    BY Zenon, <1>3 DEF write, SetFile
  <2>2. Entry(i) \in FileEntry /\ Entry(i).in_use
    BY Zenon, <1>1, <2>1
  <2>3. Size(Entry(i)) \in Int /\ Entry(i).offset + off_t(n) \in Int
    BY <1>off, <2>2 DEF FileEntry
  <2> HIDE DEF Size, Entry
  <2>4. After(Entry(i)) \in FileEntry /\ After(Entry(i)).in_use
    <3> DEFINE e == Entry(i)
               a == Entry(i).offset + off_t(n)
               b == Size(Entry(i))
    <3>1. After(e) = [e EXCEPT !.offset = a, !.size = b]
      BY Zenon
    <3> HIDE DEF e, a, b, After
    <3>2. e \in FileEntry /\ a \in Int /\ b \in Int /\ e.in_use
      BY Zenon, <2>2, <2>3 DEF e, a, b
    <3>3. [e EXCEPT !.offset = a, !.size = b] \in FileEntry
          /\ [e EXCEPT !.offset = a, !.size = b].in_use = e.in_use
      BY <3>2, EntryWritten, Zenon
    <3> QED
      BY Zenon, <3>1, <3>2, <3>3 DEF e
  <2> HIDE DEF After
  <2> QED
    BY Zenon, <1>1, <2>1, <2>2, <2>4, FileChanged DEF Entry
<1>4. CASE lseek(fd, n)
  <2> DEFINE From(e, whence) == CASE whence = "SEEK_SET" -> 0
                                  [] whence = "SEEK_CUR" -> e.offset
                                  [] whence = "SEEK_END" -> e.size
             After(e, whence) == [e EXCEPT !.offset = n + From(e, whence)]
  <2>1. PICK whence \in {"SEEK_SET", "SEEK_CUR", "SEEK_END"}, i \in FileIndex :
          /\ gnuos_file_get(fd, i)
          /\ g_file_table' = [g_file_table EXCEPT ![i] = After(Entry(i), whence)]
          /\ fds' = [fds EXCEPT ![fd] = After(fds[fd], whence)]
          /\ UNCHANGED g_socket_table
    BY Zenon, <1>4 DEF lseek, SetFile
  <2>2. From(Entry(i), whence) \in Int
    BY <1>1, <2>1 DEF FileEntry
  <2> HIDE DEF From
  <2>3. After(Entry(i), whence) \in FileEntry /\ After(Entry(i), whence).in_use
    BY <1>1, <2>1, <2>2 DEF FileEntry
  <2> HIDE DEF After
  <2> QED
    BY Zenon, <1>1, <2>1, <2>3, FileChanged
<1>5. CASE fchmod(fd)
  <2>1. PICK i \in FileIndex :
          /\ gnuos_file_get(fd, i)
          /\ g_file_table' = [g_file_table EXCEPT ![i] = [Entry(i) EXCEPT !.mode = "changed"]]
          /\ fds' = [fds EXCEPT ![fd] = [fds[fd] EXCEPT !.mode = "changed"]]
          /\ UNCHANGED g_socket_table
    BY ZenonT(40), <1>5 DEF fchmod, SetFile
  <2> DEFINE o == [Entry(i) EXCEPT !.mode = "changed"]
  <2>2. o \in FileEntry /\ o.in_use
    BY <1>1, <2>1 DEF FileEntry
  <2> QED
    BY Zenon, <1>1, <2>1, <2>2, FileChanged
<1> QED
  BY Zenon, <1>2, <1>3, <1>4, <1>5

(* close takes the descriptor from the program and frees its entry. *)
LEMMA FdCloseKeeps ==
    ASSUME LibcInv, NEW fd \in Descriptor, close(fd)
    PROVE  TablesTyped' /\ DescriptorsExact'
<1> USE DEF LibcInv, LibcExact
<1>1. /\ DOMAIN fds' = DOMAIN fds \ {fd} /\ fds' = [f \in DOMAIN fds' |-> fds'[f]]
      /\ \A f \in DOMAIN fds \ {fd} : fds'[f] = fds[f]
  BY Zenon DEF close
<1>2. /\ \A j \in SocketIndex : SocketBase + j \in Int
      /\ \A j, k \in SocketIndex : SocketBase + j = SocketBase + k => j = k
      /\ \A j \in FileIndex : FileBase + j \in Int
      /\ \A j, k \in FileIndex : FileBase + j = FileBase + k => j = k
      /\ \A j \in SocketIndex, k \in FileIndex : SocketBase + j # FileBase + k
  BY SMTT(30), LibcAssumption DEF LibcAssumption, SocketIndex, FileIndex
<1>3. ASSUME NEW i \in SocketIndex, gnuos_socket_get(fd, i),
             g_socket_table' = [g_socket_table EXCEPT
                   ![i].in_use = FALSE, ![i].connected = FALSE, ![i].listening = FALSE],
             UNCHANGED g_file_table
      PROVE  TablesTyped' /\ DescriptorsExact'
  <2>1. fd = SocketBase + i
    BY <1>3, LibcAssumption DEF LibcAssumption, gnuos_socket_get, SocketIndex, Descriptor
  <2>2. g_socket_table[i] \in SocketEntry
    BY Zenon DEF TablesTyped
  <2>3. /\ g_socket_table' \in [SocketIndex -> SocketEntry] /\ ~g_socket_table'[i].in_use
        /\ \A j \in SocketIndex : j # i => g_socket_table'[j] = g_socket_table[j]
    BY Zenon, <1>3, <2>2 DEF TablesTyped, SocketEntry
  <2>4. TablesTyped'
    BY Zenon, <1>1, <1>3, <2>3 DEF TablesTyped
  <2>5. DOMAIN fds' = {SocketBase + j : j \in {k \in SocketIndex : g_socket_table'[k].in_use}}
                 \cup {FileBase + j : j \in {k \in FileIndex : g_file_table'[k].in_use}}
    BY <1>1, <1>2, <1>3, <2>1, <2>3 DEF DescriptorsExact
  <2> QED
    BY <1>1, <1>2, <1>3, <2>1, <2>3, <2>4, <2>5 DEF DescriptorsExact
<1>4. ASSUME NEW i \in FileIndex, gnuos_file_get(fd, i),
             g_file_table' = [g_file_table EXCEPT ![i].in_use = FALSE, ![i].offset = 0],
             UNCHANGED g_socket_table
      PROVE  TablesTyped' /\ DescriptorsExact'
  <2>1. fd = FileBase + i
    BY <1>4, LibcAssumption DEF LibcAssumption, gnuos_file_get, FileIndex, Descriptor
  <2>2. g_file_table[i] \in FileEntry
    BY Zenon DEF TablesTyped
  <2>3. /\ g_file_table' \in [FileIndex -> FileEntry] /\ ~g_file_table'[i].in_use
        /\ \A j \in FileIndex : j # i => g_file_table'[j] = g_file_table[j]
    <3>1. g_file_table' = [g_file_table EXCEPT
                              ![i] = [g_file_table[i] EXCEPT !.in_use = FALSE, !.offset = 0]]
      BY Zenon, <1>4 DEF TablesTyped
    <3> DEFINE e == g_file_table[i]
               o == [e EXCEPT !.in_use = FALSE, !.offset = 0]
    <3>2. o \in FileEntry /\ o.in_use = FALSE
      <4> HIDE DEF e
      <4>1. e \in FileEntry
        BY Zenon, <2>2 DEF e
      <4> QED
        BY <4>1, EntryClosed, Zenon
    <3> HIDE DEF o
    <3> QED
      BY Zenon, <3>1, <3>2 DEF TablesTyped, o
  <2>4. TablesTyped'
    BY Zenon, <1>1, <1>4, <2>3 DEF TablesTyped
  <2>5. DOMAIN fds' = {SocketBase + j : j \in {k \in SocketIndex : g_socket_table'[k].in_use}}
                 \cup {FileBase + j : j \in {k \in FileIndex : g_file_table'[k].in_use}}
    BY <1>1, <1>2, <1>4, <2>1, <2>3 DEF DescriptorsExact
  <2> QED
    BY SMTT(30), <1>1, <1>2, <1>4, <2>1, <2>3, <2>4, <2>5 DEF DescriptorsExact
<1> QED
  BY Zenon, <1>3, <1>4 DEF close

(* All tables are empty and the pool is unused at the start of a program. *)
LEMMA LibcInit == libc_init => LibcInv
<1> SUFFICES ASSUME libc_init PROVE LibcInv
  BY Zenon
<1>1. TablesTyped
  BY DEF libc_init, TablesTyped, SocketEntry, FileEntry
<1>2. PoolInv /\ MappingsApart
  BY LibcAssumption DEF LibcAssumption, libc_init, PoolInv, MappingsApart
<1>3. DescriptorsExact
  BY Zenon DEF libc_init, DescriptorsExact
<1> QED
  BY Zenon, <1>1, <1>2, <1>3 DEF LibcInv, LibcExact

(* Descriptors and mappings are what the program was told they are, for    *)
(* tables and a pool of any size and every sequence of calls.              *)
THEOREM LibcIsExact == LibcSpec => []LibcExact
<1>1. LibcInv /\ [FdNext \/ MapNext]_libcVars => LibcInv'
  <2> SUFFICES ASSUME LibcInv, [FdNext \/ MapNext]_libcVars PROVE LibcInv'
    BY Zenon
  <2>1. CASE UNCHANGED libcVars
    BY Zenon, <2>1 DEF libcVars, fdVars, mapVars, LibcInv, LibcExact, TablesTyped, PoolInv,
                DescriptorsExact, MappingsApart
  <2>2. CASE FdNext
    <3>1. UNCHANGED mapVars
      BY Zenon, <2>2 DEF FdNext
    <3>2. TablesTyped' /\ DescriptorsExact'
      <4>1. ASSUME NEW fd \in Descriptor, fchmod(fd)
            PROVE  TablesTyped' /\ DescriptorsExact'
        <5>1. 1 \in Int
          OBVIOUS
        <5> QED
          BY Zenon, <4>1, <5>1, FileKeeps
      <4>2. ASSUME NEW fd \in Descriptor, NEW n \in (1..2) \cup {1, 2, SizeEnd - 1},
                   read(fd, n) \/ write(fd, n)
            PROVE  TablesTyped' /\ DescriptorsExact'
        <5>1. n \in Int
          BY LibcAssumption DEF LibcAssumption
        <5> QED
          BY Zenon, <4>2, <5>1, FileKeeps
      <4>3. ASSUME NEW fd \in Descriptor, NEW n \in -1..1, lseek(fd, n)
            PROVE  TablesTyped' /\ DescriptorsExact'
        BY <4>3, FileKeeps
      <4> QED
        BY ZenonT(40), <2>2, <4>1, <4>2, <4>3, OpenKeeps, SocketKeeps, FdCloseKeeps DEF FdNext
    <3> QED
      BY Zenon, <3>1, <3>2, PoolKept DEF LibcInv, LibcExact
  <2> QED
    BY Zenon, <2>1, <2>2, MapKeeps DEF MapNext
<1>2. LibcInv => LibcExact
  BY Zenon DEF LibcInv
<1> QED
  BY <1>1, <1>2, LibcInit, PTL DEF LibcSpec

-----------------------------------------------------------------------------
(* The dynamic loader. *)

(* Two tables of objects that a look-up cannot tell apart. *)
Alike(a, b) ==
    \A s \in ObjectSlot :
        /\ a[s].in_use = b[s].in_use /\ a[s].kind = b[s].kind
        /\ a[s].dynamic_info = b[s].dynamic_info /\ a[s].load_bias = b[s].load_bias

(* In such tables every name is found at the same address. *)
LEMMA SameAddress ==
    ASSUME NEW a, NEW b, Alike(a, b), NEW name
    PROVE  ldso_dlfcn_resolve_global(a, name) = ldso_dlfcn_resolve_global(b, name)
<1> DEFINE answer(objects, s) == IF ~objects[s].in_use THEN Nothing
                                 ELSE ldso_object_resolve_symbol(objects[s], name)
           answers(objects) == [s \in ObjectSlot |-> answer(objects, s)]
<1>1. ASSUME NEW s \in ObjectSlot PROVE answer(a, s) = answer(b, s)
  BY Zenon DEF Alike, ldso_object_resolve_symbol
<1>2. \A objects : ldso_dlfcn_resolve_global(objects, name) = FirstAnswer(answers(objects))
  BY Zenon DEF ldso_dlfcn_resolve_global
<1> HIDE DEF answer
<1>3. answers(a) = answers(b)
  BY Zenon, <1>1
<1> HIDE DEF answers
<1> QED
  BY Zenon, <1>2, <1>3

(* Relocation with either table gives the same words. *)
SameWords(a, b) ==
    \A words, section, load_bias :
        Relocated(words, section, load_bias, a) = Relocated(words, section, load_bias, b)

(* The claim above, for tables that are alike. *)
LEMMA SameRelocation ==
    ASSUME NEW a, NEW b, Alike(a, b)
    PROVE  SameWords(a, b)
<1> SUFFICES ASSUME NEW words, NEW section, NEW load_bias
             PROVE  Relocated(words, section, load_bias, a)
                       = Relocated(words, section, load_bias, b)
  BY Zenon DEF SameWords
<1> DEFINE values(objects) ==
               [sym \in 0..Len(section.symtab) |->
                   ldso_elf_symbol_value(section, load_bias, objects, sym)]
<1>1. ASSUME NEW sym
      PROVE  ldso_elf_symbol_value(section, load_bias, a, sym)
                = ldso_elf_symbol_value(section, load_bias, b, sym)
  BY Zenon, SameAddress DEF ldso_elf_symbol_value
<1>2. values(a) = values(b)
  BY Zenon, <1>1
<1> QED
  BY Zenon, <1>2 DEF Relocated

(* A change of a slot's count alone leaves the table alike. *)
LEMMA CountChanged ==
    ASSUME NEW objects, Slots(objects), NEW s, NEW count
    PROVE  LET after == [objects EXCEPT ![s] = [objects[s] EXCEPT !.refcount = count]]
           IN  Slots(after) /\ Alike(after, objects)
<1> DEFINE o == [objects[s] EXCEPT !.refcount = count]
           after == [objects EXCEPT ![s] = o]
<1>1. ASSUME s \in ObjectSlot
      PROVE  /\ DOMAIN o = DOMAIN objects[s]
             /\ o.in_use = objects[s].in_use /\ o.kind = objects[s].kind
             /\ o.dynamic_info = objects[s].dynamic_info /\ o.load_bias = objects[s].load_bias
  <2>1. {"in_use", "kind", "dynamic_info", "load_bias"} \subseteq DOMAIN objects[s]
    BY Zenon, <1>1 DEF Slots
  <2> QED
    BY <2>1
<1> HIDE DEF o
<1>2. /\ DOMAIN after = ObjectSlot
      /\ \A t \in ObjectSlot : after[t] = IF t = s THEN o ELSE objects[t]
  BY Zenon DEF Slots
<1> HIDE DEF after
<1>3. Slots(after) /\ Alike(after, objects)
  BY Zenon, <1>1, <1>2 DEF Slots, Alike
<1> QED
  BY Zenon, <1>3 DEF after, o

(* A slot that is filled anew has the fields of an object. *)
LEMMA SlotFilled ==
    ASSUME NEW objects, Slots(objects), NEW s, NEW name, NEW kind, NEW section, NEW load_bias
    PROVE  Slots([objects EXCEPT ![s] = object(name, kind, section, load_bias)])
<1> DEFINE o == object(name, kind, section, load_bias)
           after == [objects EXCEPT ![s] = o]
<1>1. {"in_use", "kind", "dynamic_info", "load_bias"} \subseteq DOMAIN o
  BY Zenon DEF object
<1> HIDE DEF o
<1>2. /\ DOMAIN after = ObjectSlot
      /\ \A t \in ObjectSlot : after[t] = IF t = s THEN o ELSE objects[t]
  BY Zenon DEF Slots
<1> HIDE DEF after
<1>3. Slots(after)
  BY Zenon, <1>1, <1>2 DEF Slots
<1> QED
  BY Zenon, <1>3 DEF after, o

(* Registering a built-in object fills at most one slot. *)
LEMMA RegisterKeeps ==
    ASSUME NEW objects, Slots(objects), NEW name
    PROVE  Slots(register(objects, name))
<1> DEFINE same == ldso_object_find_by_name(objects, name)
           slot == IF same # Nothing THEN same ELSE ldso_object_find_free_slot(objects)
<1>1. register(objects, name) =
        IF slot = Nothing THEN objects
        ELSE [objects EXCEPT ![slot] = object(name, "BUILTIN", Nothing, 0)]
  BY Zenon DEF register
<1> HIDE DEF slot
<1>2. CASE slot = Nothing
  BY Zenon, <1>1, <1>2
<1>3. CASE slot # Nothing
  <2>1. Slots([objects EXCEPT ![slot] = object(name, "BUILTIN", Nothing, 0)])
    BY Zenon, SlotFilled
  <2>2. register(objects, name) = [objects EXCEPT ![slot] = object(name, "BUILTIN", Nothing, 0)]
    BY Zenon, <1>1, <1>3
  <2> QED
    BY Zenon, <2>1, <2>2
<1> QED
  BY Zenon, <1>2, <1>3

(* The table that ldso_dlfcn_init and the registrations leave. *)
LEMMA InitObjectsKeeps ==
    ASSUME LdsoInv, InitObjects
    PROVE  LdsoInv'
<1> DEFINE parsed == ldso_elf_parse_dynamic(Img, Layout, Bias)
           main == [g_ldso_dlfcn_objects EXCEPT
                       ![0] = object("<main>", "DYNAMIC", parsed, Bias)]
           objects == ldso_stage0_register_builtin_symbols(main)
<1>1. Slots(main)
  BY Zenon, SlotFilled DEF LdsoInv
<1>2. /\ g_ldso_dlfcn_objects' \in {g_ldso_dlfcn_objects, objects}
      /\ stage = "dynamic" /\ stage' \in {"preload", "relocate", "returned"}
      /\ UNCHANGED <<img, word>>
  BY Zenon DEF InitObjects
<1>3. "load_bias" \in DOMAIN g_ldso_stage0_state'
  BY Zenon DEF InitObjects, LdsoInv
<1> HIDE DEF main
<1>4. Slots(objects)
  BY Zenon, <1>1, RegisterKeeps DEF ldso_stage0_register_builtin_symbols
<1> HIDE DEF objects
<1>5. word = FileWords /\ FileWords' = FileWords
  BY Zenon, <1>2 DEF LdsoInv, FileWords, Img
<1> QED
  BY Zenon, <1>2, <1>3, <1>4, <1>5 DEF LdsoInv, BindingsStay

(* A step that changes at most counts, and neither image nor words. *)
LEMMA BindingsKept ==
    ASSUME LdsoInv, Slots(g_ldso_dlfcn_objects'),
           Alike(g_ldso_dlfcn_objects', g_ldso_dlfcn_objects),
           UNCHANGED <<img, dynamic_info, word>>,
           "load_bias" \in DOMAIN g_ldso_stage0_state',
           g_ldso_stage0_state'.load_bias = g_ldso_stage0_state.load_bias,
           stage' = "init" => stage = "init",
           stage' \notin {"init", "returned"} => stage \notin {"init", "returned"}
    PROVE  LdsoInv'
<1>1. FileWords' = FileWords /\ Bias' = Bias
  BY Zenon DEF FileWords, Img, Bias
<1>2. Relocated(FileWords, dynamic_info, Bias, g_ldso_dlfcn_objects')
        = Relocated(FileWords, dynamic_info, Bias, g_ldso_dlfcn_objects)
  <2>1. SameWords(g_ldso_dlfcn_objects', g_ldso_dlfcn_objects)
    BY Zenon, SameRelocation
  <2> QED
    BY Zenon, <2>1 DEF SameWords
<1>3. BindingsStay'
  BY Zenon, <1>1, <1>2 DEF LdsoInv, BindingsStay
<1> QED
  BY Zenon, <1>1, <1>3 DEF LdsoInv

(* A table is like itself. *)
LEMMA AlikeItself == \A a : Alike(a, a)
BY Zenon DEF Alike

(* ldso_dlopen counts one reference more. *)
LEMMA OpenCounts ==
    ASSUME Slots(g_ldso_dlfcn_objects), NEW name, ldso_dlopen(name)
    PROVE  Slots(g_ldso_dlfcn_objects') /\ Alike(g_ldso_dlfcn_objects', g_ldso_dlfcn_objects)
<1> DEFINE s == ldso_object_find_by_name(g_ldso_dlfcn_objects,
                                         IF name = NoName THEN "<main>" ELSE name)
<1>1. \/ UNCHANGED g_ldso_dlfcn_objects
      \/ g_ldso_dlfcn_objects' = [g_ldso_dlfcn_objects EXCEPT ![s].refcount = @ + 1]
  BY Zenon DEF ldso_dlopen
<1> HIDE DEF s
<1>2. CASE UNCHANGED g_ldso_dlfcn_objects
  BY Zenon, <1>2, AlikeItself
<1>3. CASE g_ldso_dlfcn_objects' = [g_ldso_dlfcn_objects EXCEPT ![s].refcount = @ + 1]
  <2> DEFINE count == g_ldso_dlfcn_objects[s].refcount + 1
  <2>1. g_ldso_dlfcn_objects' =
          [g_ldso_dlfcn_objects EXCEPT ![s] = [g_ldso_dlfcn_objects[s] EXCEPT !.refcount = count]]
    BY Zenon, <1>3
  <2> HIDE DEF count
  <2> QED
    BY Zenon, <2>1, CountChanged
<1> QED
  BY Zenon, <1>1, <1>2, <1>3

(* ldso_dlclose counts one less; the slot stays in use. *)
LEMMA CloseCounts ==
    ASSUME Slots(g_ldso_dlfcn_objects), NEW s \in ObjectSlot, ldso_dlclose(s)
    PROVE  Slots(g_ldso_dlfcn_objects') /\ Alike(g_ldso_dlfcn_objects', g_ldso_dlfcn_objects)
<1>1. CASE UNCHANGED g_ldso_dlfcn_objects
  BY Zenon, <1>1, AlikeItself
<1>2. CASE g_ldso_dlfcn_objects' = [g_ldso_dlfcn_objects EXCEPT ![s] = drop_reference(@)]
  <2> DEFINE count == g_ldso_dlfcn_objects[s].refcount - 1
  <2>1. g_ldso_dlfcn_objects' =
          [g_ldso_dlfcn_objects EXCEPT ![s] = [g_ldso_dlfcn_objects[s] EXCEPT !.refcount = count]]
    BY Zenon, <1>2 DEF drop_reference
  <2> HIDE DEF count
  <2> QED
    BY Zenon, <2>1, CountChanged
<1> QED
  BY Zenon, <1>1, <1>2 DEF ldso_dlclose

(* The words are those of the file before the bootstrap. *)
LEMMA LdsoInit == ldso_stage0_state_reset => LdsoInv
<1> SUFFICES ASSUME ldso_stage0_state_reset PROVE LdsoInv
  BY Zenon
<1>1. {"in_use", "kind", "dynamic_info", "load_bias"} \subseteq DOMAIN object_reset
  BY Zenon DEF object_reset
<1>2. Slots(g_ldso_dlfcn_objects)
  BY Zenon, <1>1 DEF ldso_stage0_state_reset, Slots
<1>3. "load_bias" \in DOMAIN g_ldso_stage0_state /\ stage = "stack" /\ word = FileWords
  BY Zenon DEF ldso_stage0_state_reset
<1> QED
  BY Zenon, <1>2, <1>3 DEF LdsoInv, BindingsStay

(* For every set of images, every LD_PRELOAD, every table of objects and   *)
(* every sequence of dl calls of the initialisers, also ones that close    *)
(* more than they opened: the objects go on giving every symbol the        *)
(* address that its relocation was bound to (ldso_dlopen, ldso_dlclose,    *)
(* ldso_dlfcn_resolve_global, ldso_elf_apply_relocations).                 *)
THEOREM BindingsNeverStale == LdsoSpec => []BindingsStay
<1>1. ASSUME LdsoInv, [LdsoNext]_ldsoVars PROVE LdsoInv'
  <2>slots. Slots(g_ldso_dlfcn_objects)
    BY Zenon, <1>1 DEF LdsoInv
  <2>1. CASE ReadHeaders
    <3>1. /\ "load_bias" \in DOMAIN g_ldso_stage0_state'
          /\ stage = "stack" /\ stage' \in {"dynamic", "returned"}
          /\ UNCHANGED <<img, word, g_ldso_dlfcn_objects>>
      BY Zenon, <1>1, <2>1 DEF ReadHeaders, LdsoInv
    <3>2. word = FileWords /\ FileWords' = FileWords
      BY Zenon, <1>1, <3>1 DEF LdsoInv, FileWords, Img
    <3> QED
      BY Zenon, <2>slots, <3>1, <3>2 DEF LdsoInv, BindingsStay
  <2>2. CASE InitObjects
    BY Zenon, <1>1, <2>2, InitObjectsKeeps
  <2>3. CASE Preload
    <3>1. /\ "load_bias" \in DOMAIN g_ldso_stage0_state'
          /\ g_ldso_stage0_state'.load_bias = g_ldso_stage0_state.load_bias
          /\ stage = "preload" /\ stage' \in {"preload", "relocate"}
          /\ UNCHANGED <<img, dynamic_info, word>>
      BY Zenon, <1>1, <2>3 DEF Preload, LdsoInv
    <3>2. UNCHANGED g_ldso_dlfcn_objects \/ \E name : ldso_dlopen(name)
      BY Zenon, <2>3 DEF Preload
    <3>3. Slots(g_ldso_dlfcn_objects') /\ Alike(g_ldso_dlfcn_objects', g_ldso_dlfcn_objects)
      BY Zenon, <2>slots, <3>2, AlikeItself, OpenCounts
    <3> QED
      BY ZenonT(40), <1>1, <3>1, <3>3, BindingsKept
  <2>4. CASE Relocate
    <3>1. /\ "load_bias" \in DOMAIN g_ldso_stage0_state'
          /\ g_ldso_stage0_state'.load_bias = g_ldso_stage0_state.load_bias
          /\ stage = "relocate" /\ stage' = "init"
          /\ UNCHANGED <<img, dynamic_info, g_ldso_dlfcn_objects>>
          /\ word' = Relocated(word, dynamic_info, Bias, g_ldso_dlfcn_objects).word
      BY Zenon, <1>1, <2>4 DEF Relocate, LdsoInv
    <3>2. word = FileWords /\ FileWords' = FileWords /\ Bias' = Bias
      BY Zenon, <1>1, <3>1 DEF LdsoInv, FileWords, Img, Bias
    <3>3. BindingsStay'
      BY Zenon, <3>1, <3>2 DEF BindingsStay
    <3> QED
      BY Zenon, <2>slots, <3>1, <3>3 DEF LdsoInv
  <2>5. CASE RunInit
    <3>1. /\ "load_bias" \in DOMAIN g_ldso_stage0_state'
          /\ g_ldso_stage0_state'.load_bias = g_ldso_stage0_state.load_bias
          /\ stage = "init" /\ stage' \in {"init", "returned"}
          /\ UNCHANGED <<img, dynamic_info, word, g_ldso_dlfcn_objects>>
      BY Zenon, <1>1, <2>5 DEF RunInit, LdsoInv
    <3> QED
      BY ZenonT(40), <1>1, <2>slots, <3>1, AlikeItself, BindingsKept
  <2>6. ASSUME UNCHANGED callVars, Slots(g_ldso_dlfcn_objects'),
               Alike(g_ldso_dlfcn_objects', g_ldso_dlfcn_objects)
        PROVE  LdsoInv'
    <3>1. /\ UNCHANGED <<img, dynamic_info, word, stage, g_ldso_stage0_state>>
          /\ "load_bias" \in DOMAIN g_ldso_stage0_state
      BY Zenon, <1>1, <2>6 DEF callVars, LdsoInv
    <3> QED
      BY ZenonT(40), <1>1, <2>6, <3>1, BindingsKept
  <2>7. CASE \E name \in DlName \cup {NoName} : Dlopen(name)
    BY ZenonT(40), <2>slots, <2>6, <2>7, OpenCounts DEF Dlopen
  <2>8. CASE \E handle \in ObjectSlot \cup {RTLD_DEFAULT, RTLD_NEXT}, name \in DOMAIN Builtin :
                ldso_dlsym(handle, name)
    <3>1. UNCHANGED callVars /\ UNCHANGED g_ldso_dlfcn_objects
      BY Zenon, <2>8 DEF ldso_dlsym
    <3> QED
      BY Zenon, <2>slots, <2>6, <3>1, AlikeItself
  <2>9. CASE \E s \in ObjectSlot : ldso_dlclose(s)
    <3>1. UNCHANGED callVars
      BY Zenon, <2>9 DEF ldso_dlclose
    <3> QED
      BY Zenon, <2>slots, <2>6, <2>9, <3>1, CloseCounts
  <2>10. CASE ldso_dlerror
    BY Zenon, <2>slots, <2>6, <2>10, AlikeItself DEF ldso_dlerror
  <2>11. CASE UNCHANGED ldsoVars
    <3>1. UNCHANGED callVars /\ UNCHANGED g_ldso_dlfcn_objects
      BY Zenon, <2>11 DEF ldsoVars, callVars
    <3> QED
      BY Zenon, <2>slots, <2>6, <3>1, AlikeItself
  <2> QED
    BY ZenonT(40), <1>1, <2>1, <2>2, <2>3, <2>4, <2>5, <2>7, <2>8, <2>9, <2>10, <2>11 DEF LdsoNext
<1> QED
  BY <1>1, LdsoInit, PTL DEF LdsoSpec, LdsoInv

-----------------------------------------------------------------------------
(* The UEFI loader. *)

INSTANCE FiniteSetTheorems

(* The types of the assumption, for the provers. *)
LEMMA UefiConstants ==
    /\ FramePages \in Nat /\ Retries \in Nat \ {0} /\ Slop \in Nat /\ Slop >= 2
    /\ Null \notin SUBSET Frame /\ IsFiniteSet(Frame)
    /\ \A p \in Frame : FirmwareType[p] \subseteq MemoryType \ {"EfiLoaderData"}
<1>1. FramePages \in Nat /\ Retries \in Nat \ {0} /\ Slop \in Nat /\ Slop >= 2
  BY UefiAssumption DEF UefiAssumption
<1>2. IsFiniteSet(Frame)
  BY <1>1, FS_Interval DEF Frame
<1> QED
  BY ZenonT(40), <1>1, <1>2, UefiAssumption DEF UefiAssumption, MemoryType

(* A change of one page touches at most two borders between descriptors:   *)
(* the one before it and the one behind it.                                *)
LEMMA OnePageTwoDescriptors ==
    ASSUME NEW m, NEW n, NEW q \in Frame, \A p \in Frame : p # q => m[p] = n[p]
    PROVE  /\ Descriptors(m) \in Nat /\ Descriptors(n) \in Nat
           /\ Descriptors(n) <= Descriptors(m) + 2
<1> DEFINE Starts(f) == {p \in Frame : p = 0 \/ f[p] # f[p - 1]}
<1>1. Descriptors(m) = Cardinality(Starts(m)) /\ Descriptors(n) = Cardinality(Starts(n))
  BY ZenonT(40) DEF Descriptors
<1>2. IsFiniteSet(Starts(m)) /\ IsFiniteSet(Starts(n))
  BY Zenon, UefiConstants, FS_Subset
<1>3. Starts(n) \subseteq Starts(m) \cup {q, q + 1}
  <2> SUFFICES ASSUME NEW p \in Starts(n), p # q, p # q + 1 PROVE p \in Starts(m)
    BY Zenon
  <2>1. p \in Frame /\ (p # 0 => p - 1 \in Frame /\ p - 1 # q)
    BY SMTT(30), UefiConstants DEF Frame
  <2> QED
    BY Zenon, <2>1
<1> HIDE DEF Starts
<1>4. IsFiniteSet({q, q + 1}) /\ Cardinality({q, q + 1}) <= 2
  <2>1. IsFiniteSet({q}) /\ Cardinality({q}) = 1
    BY Zenon, FS_Singleton
  <2>2. {q, q + 1} = {q} \cup {q + 1}
    BY Zenon
  <2>3. IsFiniteSet({q} \cup {q + 1}) /\ Cardinality({q} \cup {q + 1}) =
          IF q + 1 \in {q} THEN Cardinality({q}) ELSE Cardinality({q}) + 1
    BY ZenonT(40), <2>1, FS_AddElement
  <2> QED
    BY SMTT(30), <2>1, <2>2, <2>3
<1>5. /\ IsFiniteSet(Starts(m) \cup {q, q + 1})
      /\ Cardinality(Starts(m) \cup {q, q + 1}) <= Cardinality(Starts(m)) + 2
  <2>1. /\ IsFiniteSet(Starts(m) \cup {q, q + 1})
        /\ Cardinality(Starts(m) \cup {q, q + 1}) =
             Cardinality(Starts(m)) + Cardinality({q, q + 1}) - Cardinality(Starts(m) \cap {q, q + 1})
    BY ZenonT(40), <1>2, <1>4, FS_Union
  <2>2. /\ Cardinality(Starts(m)) \in Nat /\ Cardinality({q, q + 1}) \in Nat
        /\ IsFiniteSet(Starts(m) \cap {q, q + 1})
    BY Zenon, <1>2, <1>4, FS_CardinalityType, FS_Intersection
  <2>3. Cardinality(Starts(m) \cap {q, q + 1}) \in Nat
    BY ZenonT(40), <2>2, FS_CardinalityType
  <2> QED
    BY <1>4, <2>1, <2>2, <2>3
<1>6. Cardinality(Starts(n)) <= Cardinality(Starts(m) \cup {q, q + 1})
  BY ZenonT(40), <1>3, <1>5, FS_Subset
<1>7. /\ Cardinality(Starts(m)) \in Nat /\ Cardinality(Starts(n)) \in Nat
      /\ Cardinality(Starts(m) \cup {q, q + 1}) \in Nat
  BY ZenonT(40), <1>2, <1>5, FS_CardinalityType
<1> QED
  BY SMTT(30), <1>1, <1>5, <1>6, <1>7

(* Any map of the memory has a number of descriptors. *)
LEMMA DescriptorsNat ==
    ASSUME NEW m
    PROVE  Descriptors(m) \in Nat
<1>1. IsFiniteSet({p \in Frame : p = 0 \/ m[p] # m[p - 1]})
  BY ZenonT(40), UefiConstants, FS_Subset
<1> QED
  BY Zenon, <1>1, FS_CardinalityType DEF Descriptors

(* The buffer is one page or none: with and without it the map differs by  *)
(* two descriptors at most.                                                *)
LEMMA BufferTwoDescriptors ==
    ASSUME UefiTyped, Buffer = {} \/ \E p \in Frame : Buffer = {p}
    PROVE  Bare \in Nat /\ Descriptors(mem) \in Nat /\ Descriptors(mem) <= Bare + 2
<1> DEFINE m == [p \in Frame |-> IF p \in Buffer THEN "EfiConventionalMemory" ELSE mem[p]]
<1>1. Bare = Descriptors(m)
  BY ZenonT(40) DEF Bare
<1>2. Descriptors(m) \in Nat /\ Descriptors(mem) \in Nat
  BY Zenon, DescriptorsNat
<1>3. CASE Buffer = {}
  <2>1. m = mem
    BY Zenon, <1>3 DEF UefiTyped
  <2> QED
    BY <1>1, <1>2, <2>1
<1>4. ASSUME NEW q \in Frame, Buffer = {q}
      PROVE  Descriptors(mem) <= Bare + 2
  <2>1. \A p \in Frame : p # q => m[p] = mem[p]
    BY Zenon, <1>4
  <2> HIDE DEF m
  <2> QED
    BY Zenon, <1>1, <2>1, OnePageTwoDescriptors
<1> QED
  BY ZenonT(40), <1>1, <1>2, <1>3, <1>4

(* A step that ends the loader, for a reason that the invariant allows,    *)
(* and has given the buffer back or kept it.                               *)
LEMMA EndKeeps ==
    ASSUME UefiInv, UefiTyped', NoBufferPilesUp', efi'.pc = "failed",
           efi'.attempt = efi.attempt, efi'.loaded = efi.loaded, efi'.info_page = efi.info_page,
           Buffer' \subseteq Buffer, UNCHANGED events, denied' \/ events >= Retries
    PROVE  UefiInv'
<1> USE DEF UefiInv
<1>1. PagesApart'
  BY Zenon DEF PagesApart
<1>2. MapFresh'
  BY Zenon DEF MapFresh
<1>3. ChangesCounted'
  BY SMTT(30), UefiConstants DEF ChangesCounted, UefiTyped
<1> QED
  BY Zenon, <1>1, <1>2, <1>3

(* The same where nothing but the program counter changes. *)
LEMMA RefuseKeeps ==
    ASSUME UefiInv, Goto("failed"), UNCHANGED <<blob, fwVars, events>>, denied' \in BOOLEAN,
           denied' \/ events >= Retries
    PROVE  UefiInv'
<1>1. /\ efi' \in EfiState /\ efi'.pc = "failed" /\ efi'.attempt = efi.attempt
      /\ efi'.loaded = efi.loaded /\ efi'.info_page = efi.info_page
      /\ efi'.memory_map = efi.memory_map
  BY ZenonT(40) DEF UefiInv, UefiTyped, EfiState, Goto
<1>2. UefiTyped'
  BY Zenon, <1>1 DEF UefiInv, UefiTyped, fwVars
<1>3. Buffer' = Buffer
  BY Zenon, <1>1 DEF Buffer
<1>4. NoBufferPilesUp'
  BY Zenon, <1>1 DEF UefiInv, NoBufferPilesUp, fwVars
<1> QED
  BY Zenon, <1>1, <1>2, <1>3, <1>4, EndKeeps

(* SetType gives the pages it is told their type and no other. *)
LEMMA SetTypeEffect ==
    ASSUME UefiTyped, NEW S \in SUBSET Frame, NEW type \in MemoryType, SetType(S, type)
    PROVE  /\ mem' \in [Frame -> MemoryType] /\ key_valid' \in BOOLEAN
           /\ \A p \in Frame : mem'[p] = IF p \in S THEN type ELSE mem[p]
           /\ S = {} => mem' = mem /\ key_valid' = key_valid
<1>1. mem' = [p \in Frame |-> IF p \in S THEN type ELSE mem[p]]
  BY Zenon DEF SetType
<1>2. mem' \in [Frame -> MemoryType] /\ \A p \in Frame : mem'[p] = IF p \in S THEN type ELSE mem[p]
  BY Zenon, <1>1 DEF UefiTyped
<1>3. key_valid' \in BOOLEAN /\ (S = {} => key_valid' = key_valid)
  BY Zenon DEF SetType, UefiTyped
<1>4. S = {} => mem' = mem
  BY Zenon, <1>1 DEF UefiTyped
<1> QED
  BY ZenonT(40), <1>2, <1>3, <1>4

(* The checks of the kernel's ELF header touch no memory. *)
LEMMA CheckBlobKeeps ==
    ASSUME UefiInv, CheckBlob
    PROVE  UefiInv'
<1>1. blob.valid \in BOOLEAN
  BY ZenonT(40), UefiAssumption DEF UefiAssumption, UefiInv, UefiTyped
<1>2. CASE ~blob.valid
  BY Zenon, <1>1, <1>2, RefuseKeeps DEF CheckBlob
<1>3. CASE blob.valid
  <2>1. /\ efi' \in EfiState /\ efi'.pc = "load" /\ efi'.attempt = efi.attempt
        /\ efi'.loaded = efi.loaded /\ efi'.info_page = efi.info_page
        /\ efi'.memory_map = efi.memory_map /\ efi.pc = "blob"
    BY ZenonT(40), <1>3 DEF UefiInv, UefiTyped, EfiState, CheckBlob, Goto
  <2>2. denied' = FALSE /\ UNCHANGED <<blob, mem, key_valid, events>>
    BY Zenon, <1>3 DEF CheckBlob, fwVars
  <2>3. UefiTyped' /\ Buffer' = Buffer
    BY ZenonT(40), <2>1, <2>2 DEF UefiInv, UefiTyped, Buffer
  <2>4. NoBufferPilesUp' /\ PagesApart'
    BY <2>1, <2>2, <2>3 DEF UefiInv, NoBufferPilesUp, PagesApart
  <2>5. MapFresh' /\ ChangesCounted'
    BY Zenon, <2>1, <2>2 DEF UefiInv, MapFresh, ChangesCounted
  <2> QED
    BY ZenonT(40), <2>3, <2>4, <2>5 DEF UefiInv
<1> QED
  BY ZenonT(40), <1>1, <1>2, <1>3

(* A segment is loaded into pages of its own, or the loader gives up. *)
LEMMA LoadSegmentKeeps ==
    ASSUME UefiInv, LoadSegment
    PROVE  UefiInv'
<1> DEFINE s == blob.segments[efi.segment]
<1>1. UNCHANGED <<blob, events>> /\ efi.pc = "load"
  BY ZenonT(40) DEF LoadSegment
<1>2. CASE Goto("prepare") /\ UNCHANGED <<fwVars, denied>>
  <2>1. /\ efi' \in EfiState /\ efi'.pc = "prepare" /\ efi'.attempt = efi.attempt
        /\ efi'.loaded = efi.loaded /\ efi'.info_page = efi.info_page
        /\ efi'.memory_map = efi.memory_map
    BY Zenon, <1>2 DEF UefiInv, UefiTyped, EfiState, Goto
  <2>2. UefiTyped' /\ Buffer' = Buffer
    BY ZenonT(40), <1>1, <1>2, <2>1 DEF UefiInv, UefiTyped, Buffer, fwVars
  <2>3. NoBufferPilesUp' /\ PagesApart'
    BY ZenonT(40), <1>1, <1>2, <2>1, <2>2 DEF UefiInv, NoBufferPilesUp, PagesApart, fwVars
  <2>4. MapFresh' /\ ChangesCounted'
    BY ZenonT(40), <1>1, <1>2, <2>1 DEF UefiInv, MapFresh, ChangesCounted
  <2> QED
    BY Zenon, <2>2, <2>3, <2>4 DEF UefiInv
<1>3. CASE efi' = [efi EXCEPT !.segment = @ + 1] /\ UNCHANGED <<fwVars, denied>>
  <2>1. /\ efi' \in EfiState /\ efi'.pc = "load" /\ efi'.attempt = efi.attempt
        /\ efi'.loaded = efi.loaded /\ efi'.info_page = efi.info_page
        /\ efi'.memory_map = efi.memory_map
    BY <1>1, <1>3 DEF UefiInv, UefiTyped, EfiState
  <2>2. UefiTyped' /\ Buffer' = Buffer
    BY ZenonT(40), <1>1, <1>3, <2>1 DEF UefiInv, UefiTyped, Buffer, fwVars
  <2>3. NoBufferPilesUp' /\ PagesApart'
    BY ZenonT(40), <1>1, <1>3, <2>1, <2>2 DEF UefiInv, NoBufferPilesUp, PagesApart, fwVars
  <2>4. MapFresh' /\ ChangesCounted'
    BY ZenonT(40), <1>1, <1>3, <2>1 DEF UefiInv, MapFresh, ChangesCounted
  <2> QED
    BY Zenon, <2>2, <2>3, <2>4 DEF UefiInv
<1>4. CASE /\ s.pages \subseteq Conventional /\ SetType(s.pages, "EfiLoaderData")
           /\ efi' = [efi EXCEPT !.segment = @ + 1, !.loaded = @ \cup s.pages]
           /\ UNCHANGED denied
  <2>0. s.pages \in SUBSET Frame /\ \A p \in s.pages : mem[p] = "EfiConventionalMemory"
    BY Zenon, <1>4 DEF Conventional
  <2>1. /\ efi' \in EfiState /\ efi'.pc = "load" /\ efi'.attempt = efi.attempt
        /\ efi'.loaded = efi.loaded \cup s.pages /\ efi'.info_page = efi.info_page
        /\ efi'.memory_map = efi.memory_map
    <3> DEFINE e == [efi EXCEPT !.segment = @ + 1]
    <3>1. /\ e \in EfiState /\ e.pc = "load" /\ e.attempt = efi.attempt
          /\ e.loaded = efi.loaded /\ e.info_page = efi.info_page /\ e.memory_map = efi.memory_map
      BY <1>1 DEF UefiInv, UefiTyped, EfiState
    <3>2. efi' = [e EXCEPT !.loaded = efi.loaded \cup s.pages]
      BY <1>4, ZenonT(40)
    <3> HIDE DEF e, s
    <3> QED
      BY <2>0, <3>1, <3>2 DEF EfiState
  <2>2. /\ mem' \in [Frame -> MemoryType] /\ key_valid' \in BOOLEAN
        /\ \A p \in Frame : mem'[p] = IF p \in s.pages THEN "EfiLoaderData" ELSE mem[p]
    BY ZenonT(40), <1>4, <2>0, SetTypeEffect DEF UefiInv, MemoryType
  <2>3. UefiTyped' /\ Buffer' = {} /\ Buffer = {}
    BY SMTT(30), <1>1, <1>4, <2>1, <2>2 DEF UefiInv, UefiTyped, Buffer, PagesApart
  <2>4. {p \in Frame : mem[p] = "EfiLoaderData"} = efi.loaded
    BY ZenonT(40), <1>1, <2>3 DEF UefiInv, NoBufferPilesUp, Buffer, PagesApart
  <2>5. NoBufferPilesUp'
    BY ZenonT(40), <1>1, <2>0, <2>1, <2>2, <2>4 DEF UefiInv, NoBufferPilesUp, PagesApart
  <2>6. PagesApart'
    BY <1>1, <2>1, <2>3 DEF UefiInv, PagesApart
  <2>7. MapFresh' /\ ChangesCounted'
    BY ZenonT(40), <1>1, <1>4, <2>1 DEF UefiInv, MapFresh, ChangesCounted
  <2> QED
    BY ZenonT(40), <2>3, <2>5, <2>6, <2>7 DEF UefiInv
<1>5. CASE Refuse
  BY ZenonT(40), <1>1, <1>5, RefuseKeeps DEF Refuse
<1> QED
  BY ZenonT(40), <1>2, <1>3, <1>4, <1>5 DEF LoadSegment

(* The page of the boot information and the frame buffer are found, or the *)
(* loader gives up.                                                        *)
LEMMA PrepareKeeps ==
    ASSUME UefiInv, Prepare
    PROVE  UefiInv'
<1>1. UNCHANGED <<blob, events>> /\ efi.pc = "prepare"
  BY Zenon DEF Prepare
<1>2. CASE Refuse
  BY ZenonT(40), <1>1, <1>2, RefuseKeeps DEF Refuse
<1>3. ASSUME NEW q \in Conventional, NEW fb \in gnuos_probe_gop_framebuffer,
             SetType({q}, "EfiLoaderData"), UNCHANGED denied,
             efi' = [efi EXCEPT !.pc = "attempt", !.info_page = {q}, !.framebuffer = fb]
      PROVE  UefiInv'
  <2>0. q \in Frame /\ mem[q] = "EfiConventionalMemory"
    BY Zenon DEF Conventional
  <2>1. /\ efi' \in EfiState /\ efi'.pc = "attempt" /\ efi'.attempt = efi.attempt
        /\ efi'.loaded = efi.loaded /\ efi'.info_page = {q}
        /\ efi'.memory_map = efi.memory_map
    BY Zenon, <1>3, <2>0 DEF UefiInv, UefiTyped, EfiState, gnuos_probe_gop_framebuffer
  <2>2. /\ mem' \in [Frame -> MemoryType] /\ key_valid' \in BOOLEAN
        /\ \A p \in Frame : mem'[p] = IF p \in {q} THEN "EfiLoaderData" ELSE mem[p]
    BY <1>3, <2>0, SetTypeEffect DEF UefiInv, MemoryType
  <2>3. UefiTyped' /\ Buffer' = {} /\ Buffer = {}
    BY ZenonT(40), <1>1, <1>3, <2>1, <2>2 DEF UefiInv, UefiTyped, Buffer, PagesApart
  <2>4. {p \in Frame : mem[p] = "EfiLoaderData"} = efi.loaded
    BY ZenonT(40), <1>1, <2>3 DEF UefiInv, NoBufferPilesUp, Buffer, PagesApart
  <2>5. q \notin efi.loaded
    BY ZenonT(40), <2>0, <2>4
  <2>6. NoBufferPilesUp'
    BY SMTT(30), <1>1, <2>0, <2>1, <2>2, <2>4 DEF UefiInv, NoBufferPilesUp, PagesApart
  <2>7. PagesApart'
    BY <1>1, <2>1, <2>3, <2>5 DEF UefiInv, PagesApart
  <2>8. MapFresh' /\ ChangesCounted'
    BY ZenonT(40), <1>1, <1>3, <2>1 DEF UefiInv, MapFresh, ChangesCounted
  <2> QED
    BY ZenonT(40), <2>3, <2>6, <2>7, <2>8 DEF UefiInv
<1> QED
  BY ZenonT(40), <1>2, <1>3 DEF Prepare

(* The buffer given back: its pages are conventional, and the loader keeps *)
(* the others.                                                             *)
LEMMA BufferReleased ==
    ASSUME UefiInv, efi'.memory_map = Null,
           efi'.loaded = efi.loaded, efi'.info_page = efi.info_page,
           mem' \in [Frame -> MemoryType],
           \A p \in Frame : mem'[p] = IF p \in Buffer THEN "EfiConventionalMemory" ELSE mem[p]
    PROVE  /\ NoBufferPilesUp' /\ Buffer' = {}
           /\ Descriptors(mem') = Bare /\ Bare' = Bare
<1>1. Buffer' = {}
  BY Zenon DEF Buffer
<1>2. NoBufferPilesUp'
  BY DEF UefiInv, NoBufferPilesUp, Buffer, PagesApart
<1>3. mem' = [p \in Frame |-> IF p \in Buffer THEN "EfiConventionalMemory" ELSE mem[p]]
  BY Zenon
<1>4. mem' = [p \in Frame |-> IF p \in Buffer' THEN "EfiConventionalMemory" ELSE mem'[p]]
  BY Zenon, <1>1
<1>5. Descriptors(mem') = Bare
  BY Zenon, <1>3 DEF Bare
<1>6. Bare' = Descriptors(mem')
  BY Zenon, <1>4 DEF Bare
<1> QED
  BY ZenonT(40), <1>1, <1>2, <1>5, <1>6

(* An attempt to leave the boot services starts without a buffer, or is    *)
(* one too many.                                                           *)
LEMMA BeginAttemptKeeps ==
    ASSUME UefiInv, BeginAttempt
    PROVE  UefiInv'
<1>1. UNCHANGED <<blob, events>> /\ efi.pc = "attempt"
  BY Zenon DEF BeginAttempt
<1>2. /\ efi \in EfiState /\ events \in 0..Retries /\ efi.attempt \in Nat
      /\ (events < Retries => efi.attempt <= events)
  BY Zenon DEF UefiInv, UefiTyped, EfiState, ChangesCounted
<1>3. CASE efi.attempt >= Retries
  <2>1. events >= Retries
    BY <1>2, <1>3, UefiConstants
  <2> QED
    BY ZenonT(40), <1>1, <1>3, <2>1, RefuseKeeps DEF BeginAttempt, UefiInv, UefiTyped
<1>4. CASE ~(efi.attempt >= Retries)
  <2> DEFINE e == FreePool(efi)
  <2>1. /\ mem' \in [Frame -> MemoryType] /\ key_valid' \in BOOLEAN
        /\ \A p \in Frame : mem'[p] = IF p \in Buffer THEN "EfiConventionalMemory" ELSE mem[p]
    <3>1. CASE efi.memory_map = Null
      BY ZenonT(40), <1>4, <3>1 DEF BeginAttempt, Release, fwVars, UefiInv, UefiTyped, Buffer
    <3>2. CASE efi.memory_map # Null
      <4>1. efi.memory_map \in SUBSET Frame /\ Buffer = efi.memory_map
        BY ZenonT(40), <1>2, <3>2 DEF EfiState, Buffer
      <4>2. SetType(efi.memory_map, "EfiConventionalMemory")
        BY Zenon, <1>4, <3>2 DEF BeginAttempt, Release
      <4> QED
        BY <4>1, <4>2, SetTypeEffect DEF UefiInv, MemoryType
    <3> QED
      BY Zenon, <3>1, <3>2
  <2>2. /\ e \in EfiState /\ e.memory_map = Null /\ e.attempt = efi.attempt
        /\ e.loaded = efi.loaded /\ e.info_page = efi.info_page
    BY Zenon, <1>2 DEF FreePool, EfiState
  <2> HIDE DEF e
  <2>3. CASE /\ efi' = [e EXCEPT !.pc = "alloc", !.tries = 0, !.size = Descriptors(mem') + Slop]
             /\ UNCHANGED denied
    <3>1. Descriptors(mem') + Slop \in Nat /\ Descriptors(mem') \in Nat
      BY DescriptorsNat, UefiConstants
    <3>2. /\ efi' \in EfiState /\ efi'.pc = "alloc" /\ efi'.attempt = efi.attempt
          /\ efi'.loaded = efi.loaded /\ efi'.info_page = efi.info_page
          /\ efi'.memory_map = Null /\ efi'.tries = 0 /\ efi'.size = Descriptors(mem') + Slop
      <4> DEFINE d == Descriptors(mem') + Slop
                 e1 == [e EXCEPT !.pc = "alloc"]
                 e2 == [e1 EXCEPT !.tries = 0]
      <4>1. /\ e1 \in EfiState /\ e1.pc = "alloc" /\ e1.attempt = efi.attempt
            /\ e1.loaded = efi.loaded /\ e1.info_page = efi.info_page /\ e1.memory_map = Null
        BY <2>2 DEF EfiState
      <4>2. efi' = [e2 EXCEPT !.size = d]
        BY <2>3, ZenonT(40)
      <4> HIDE DEF e1, d
      <4>3. /\ e2 \in EfiState /\ e2.pc = "alloc" /\ e2.attempt = efi.attempt /\ e2.tries = 0
            /\ e2.loaded = efi.loaded /\ e2.info_page = efi.info_page /\ e2.memory_map = Null
        BY <4>1 DEF EfiState
      <4> HIDE DEF e2
      <4>4. d \in Nat
        BY Zenon, <3>1 DEF d
      <4>5. /\ efi' \in EfiState /\ efi'.pc = "alloc" /\ efi'.attempt = efi.attempt
            /\ efi'.loaded = efi.loaded /\ efi'.info_page = efi.info_page
            /\ efi'.memory_map = Null /\ efi'.tries = 0 /\ efi'.size = d
        BY <4>2, <4>3, <4>4 DEF EfiState
      <4> QED
        BY <4>5 DEF d
    <3>3. NoBufferPilesUp' /\ Buffer' = {} /\ Bare' = Descriptors(mem')
      BY ZenonT(40), <2>1, <3>2, BufferReleased
    <3>4. UefiTyped'
      BY ZenonT(40), <1>1, <2>1, <2>3, <3>2 DEF UefiInv, UefiTyped
    <3>5. PagesApart'
      BY Zenon, <3>2, <3>3 DEF UefiInv, PagesApart
    <3>6. MapFresh'
      BY ZenonT(40), <3>2 DEF MapFresh
    <3>7. ChangesCounted'
      BY <1>1, <1>2, <3>1, <3>2, <3>3, UefiConstants DEF ChangesCounted
    <3> QED
      BY ZenonT(40), <3>3, <3>4, <3>5, <3>6, <3>7 DEF UefiInv
  <2>4. CASE efi' = [e EXCEPT !.pc = "failed"] /\ denied' = TRUE
    <3>1. /\ efi' \in EfiState /\ efi'.pc = "failed" /\ efi'.attempt = efi.attempt
          /\ efi'.loaded = efi.loaded /\ efi'.info_page = efi.info_page
          /\ efi'.memory_map = Null
      BY SMTT(30), <2>2, <2>4 DEF EfiState
    <3>2. NoBufferPilesUp' /\ Buffer' = {}
      BY Zenon, <2>1, <3>1, BufferReleased
    <3>3. UefiTyped'
      BY ZenonT(40), <1>1, <2>1, <2>4, <3>1 DEF UefiInv, UefiTyped
    <3> QED
      BY ZenonT(40), <1>1, <2>4, <3>1, <3>2, <3>3, EndKeeps
  <2> QED
    BY Zenon, <1>4, <2>3, <2>4 DEF BeginAttempt, e
<1> QED
  BY Zenon, <1>3, <1>4

(* The buffer for the memory map is allocated, which changes the map. *)
LEMMA AllocMapKeeps ==
    ASSUME UefiInv, AllocMap
    PROVE  UefiInv'
<1>1. UNCHANGED <<blob, info, events>> /\ efi.pc = "alloc" /\ efi.memory_map = Null /\ Buffer = {}
  BY ZenonT(40) DEF AllocMap, UefiInv, PagesApart, Buffer
<1>2. /\ efi \in EfiState /\ events \in 0..Retries /\ efi.attempt \in Nat /\ efi.tries \in Nat
      /\ (events < Retries => efi.attempt + efi.tries <= events)
  BY ZenonT(40), <1>1 DEF UefiInv, UefiTyped, EfiState, ChangesCounted
<1>3. CASE Goto("failed") /\ efi.tries = Retries /\ UNCHANGED <<fwVars, denied>>
  <2>1. events >= Retries
    BY <1>2, <1>3, UefiConstants
  <2> QED
    BY ZenonT(40), <1>1, <1>3, <2>1, RefuseKeeps DEF UefiInv, UefiTyped
<1>4. CASE Refuse
  BY ZenonT(40), <1>1, <1>4, RefuseKeeps DEF Refuse
<1>5. ASSUME NEW b \in PoolChoice, SetType(b, "EfiLoaderData"),
             efi' = [efi EXCEPT !.pc = "get", !.memory_map = b], UNCHANGED denied
      PROVE  UefiInv'
  <2>1. /\ b \in SUBSET Frame /\ \A p \in b : mem[p] = "EfiConventionalMemory"
        /\ \A p, q \in b : p = q
    BY Zenon, <1>5 DEF PoolChoice, Conventional
  <2>2. /\ efi' \in EfiState /\ efi'.pc = "get" /\ efi'.attempt = efi.attempt
        /\ efi'.loaded = efi.loaded /\ efi'.info_page = efi.info_page
        /\ efi'.memory_map = b /\ efi'.tries = efi.tries /\ efi'.size = efi.size
    BY Zenon, <1>2, <1>5, <2>1 DEF EfiState
  <2>3. /\ mem' \in [Frame -> MemoryType] /\ key_valid' \in BOOLEAN
        /\ \A p \in Frame : mem'[p] = IF p \in b THEN "EfiLoaderData" ELSE mem[p]
    BY Zenon, <1>5, <2>1, SetTypeEffect DEF UefiInv, MemoryType
  <2>4. Buffer' = b /\ b # Null
    BY Zenon, <2>1, <2>2, UefiConstants DEF Buffer
  <2>5. UefiTyped'
    BY ZenonT(40), <1>1, <1>5, <2>2, <2>3 DEF UefiInv, UefiTyped
  <2>6. {p \in Frame : mem[p] = "EfiLoaderData"} = efi.loaded \cup efi.info_page
    BY Zenon, <1>1 DEF UefiInv, NoBufferPilesUp
  <2>7. b \cap (efi.loaded \cup efi.info_page) = {}
    BY ZenonT(40), <2>1, <2>6
  <2>8. NoBufferPilesUp'
    BY SMTT(30), <2>1, <2>2, <2>3, <2>4, <2>6 DEF NoBufferPilesUp
  <2>9. PagesApart'
    BY Zenon, <2>1, <2>2, <2>4, <2>7 DEF UefiInv, PagesApart
  <2>10. MapFresh'
    BY Zenon, <2>2 DEF MapFresh
  <2>11. Bare' = Bare
    <3>1. \A p \in Frame : (IF p \in Buffer' THEN "EfiConventionalMemory" ELSE mem'[p]) = mem[p]
      BY Zenon, <2>1, <2>3, <2>4
    <3>2. \A p \in Frame : (IF p \in Buffer THEN "EfiConventionalMemory" ELSE mem[p]) = mem[p]
      BY Zenon, <1>1
    <3>3. [p \in Frame |-> IF p \in Buffer' THEN "EfiConventionalMemory" ELSE mem'[p]]
            = [p \in Frame |-> IF p \in Buffer THEN "EfiConventionalMemory" ELSE mem[p]]
      BY Zenon, <3>1, <3>2
    <3> QED
      BY <3>3, Zenon DEF Bare
  <2>12. ChangesCounted'
    BY ZenonT(40), <1>1, <1>2, <2>2, <2>11 DEF UefiInv, ChangesCounted
  <2> QED
    BY ZenonT(40), <2>5, <2>8, <2>9, <2>10, <2>12 DEF UefiInv
<1> QED
  BY ZenonT(40), SMT, <1>3, <1>4, <1>5 DEF AllocMap

(* GetMemoryMap fills the buffer, or asks for a larger one, and the loader *)
(* frees the old.                                                          *)
LEMMA GetMapKeeps ==
    ASSUME UefiInv, GetMap
    PROVE  UefiInv'
<1>1. UNCHANGED <<blob, info, events>> /\ efi.pc = "get"
  BY Zenon DEF GetMap
<1>2. /\ efi \in EfiState /\ events \in 0..Retries /\ efi.attempt \in Nat /\ efi.tries \in Nat
      /\ efi.size \in Nat /\ efi.memory_map \in SUBSET Frame /\ Buffer = efi.memory_map
      /\ mem \in [Frame -> MemoryType]
  BY Zenon, <1>1 DEF UefiInv, UefiTyped, EfiState, PagesApart, Buffer
<1>3. Bare \in Nat /\ Descriptors(mem) \in Nat /\ Descriptors(mem) <= Bare + 2
  <2>1. Buffer = {} \/ \E p \in Frame : Buffer = {p}
    BY <1>2 DEF UefiInv, PagesApart
  <2> QED
    BY Zenon, <2>1, BufferTwoDescriptors DEF UefiInv
<1> DEFINE e == FreePool(efi)
<1>4. /\ e \in EfiState /\ e.memory_map = Null /\ e.attempt = efi.attempt /\ e.tries = efi.tries
      /\ e.loaded = efi.loaded /\ e.info_page = efi.info_page
  BY Zenon, <1>2 DEF FreePool, EfiState
<1>5. ASSUME SetType(efi.memory_map, "EfiConventionalMemory")
      PROVE  /\ mem' \in [Frame -> MemoryType] /\ key_valid' \in BOOLEAN
             /\ \A p \in Frame : mem'[p] = IF p \in Buffer THEN "EfiConventionalMemory" ELSE mem[p]
  BY <1>2, <1>5, SetTypeEffect DEF UefiInv, MemoryType
<1>6. CASE /\ Descriptors(mem) <= efi.size
           /\ efi' = [efi EXCEPT !.pc = "build", !.size = Descriptors(mem), !.map = mem]
           /\ key_valid' = TRUE /\ UNCHANGED <<mem, denied>>
  <2>1. /\ efi' \in EfiState /\ efi'.pc = "build" /\ efi'.attempt = efi.attempt
        /\ efi'.loaded = efi.loaded /\ efi'.info_page = efi.info_page
        /\ efi'.memory_map = efi.memory_map /\ efi'.map = mem
    <3> DEFINE d == Descriptors(mem)
               e1 == [efi EXCEPT !.pc = "build"]
               e2 == [e1 EXCEPT !.size = d]
    <3>1. /\ e1 \in EfiState /\ e1.pc = "build" /\ e1.attempt = efi.attempt
          /\ e1.loaded = efi.loaded /\ e1.info_page = efi.info_page
          /\ e1.memory_map = efi.memory_map
      BY Zenon, <1>2 DEF EfiState
    <3>2. efi' = [e2 EXCEPT !.map = mem]
      BY <1>6, ZenonT(40)
    <3>3. d \in Nat
      BY <1>3
    <3> HIDE DEF e1, d
    <3>4. /\ e2 \in EfiState /\ e2.pc = "build" /\ e2.attempt = efi.attempt
          /\ e2.loaded = efi.loaded /\ e2.info_page = efi.info_page
          /\ e2.memory_map = efi.memory_map
      BY Zenon, <3>1, <3>3 DEF EfiState
    <3> HIDE DEF e2
    <3> QED
      BY ZenonT(40), <1>2, <3>2, <3>4 DEF EfiState
  <2>2. Buffer' = Buffer
    BY Zenon, <2>1 DEF Buffer
  <2>3. UefiTyped'
    BY ZenonT(40), <1>1, <1>6, <2>1 DEF UefiInv, UefiTyped
  <2>4. NoBufferPilesUp' /\ PagesApart'
    BY ZenonT(40), <1>1, <1>6, <2>1, <2>2 DEF UefiInv, NoBufferPilesUp, PagesApart
  <2>5. MapFresh'
    BY Zenon, <1>6, <2>1 DEF MapFresh
  <2>6. ChangesCounted'
    BY ZenonT(40), <1>1, <1>6, <2>1 DEF UefiInv, ChangesCounted
  <2> QED
    BY ZenonT(40), <2>3, <2>4, <2>5, <2>6 DEF UefiInv
<1>7. CASE /\ Descriptors(mem) > efi.size
           /\ SetType(efi.memory_map, "EfiConventionalMemory")
           /\ efi' = [FreePool(efi) EXCEPT !.pc = "alloc", !.tries = @ + 1,
                                           !.size = Descriptors(mem) + Slop]
           /\ UNCHANGED denied
  <2>1. /\ efi' \in EfiState /\ efi'.pc = "alloc" /\ efi'.attempt = efi.attempt
        /\ efi'.loaded = efi.loaded /\ efi'.info_page = efi.info_page
        /\ efi'.memory_map = Null /\ efi'.tries = efi.tries + 1
        /\ efi'.size = Descriptors(mem) + Slop
    <3> DEFINE d == Descriptors(mem) + Slop
               e1 == [e EXCEPT !.pc = "alloc"]
               e2 == [e1 EXCEPT !.tries = @ + 1]
    <3> HIDE DEF e
    <3>1. /\ e1 \in EfiState /\ e1.pc = "alloc" /\ e1.attempt = efi.attempt /\ e1.tries = efi.tries
          /\ e1.loaded = efi.loaded /\ e1.info_page = efi.info_page /\ e1.memory_map = Null
      BY <1>4 DEF EfiState
    <3>2. efi' = [e2 EXCEPT !.size = d]
      BY <1>7, ZenonT(40) DEF e
    <3>3. d \in Nat
      BY <1>3, UefiConstants
    <3> HIDE DEF e1, d
    <3>4. /\ e2 \in EfiState /\ e2.pc = "alloc" /\ e2.attempt = efi.attempt
          /\ e2.tries = efi.tries + 1
          /\ e2.loaded = efi.loaded /\ e2.info_page = efi.info_page /\ e2.memory_map = Null
      BY <1>2, <3>1 DEF EfiState
    <3> HIDE DEF e2
    <3>5. /\ efi' \in EfiState /\ efi'.pc = "alloc" /\ efi'.attempt = efi.attempt
          /\ efi'.loaded = efi.loaded /\ efi'.info_page = efi.info_page
          /\ efi'.memory_map = Null /\ efi'.tries = efi.tries + 1 /\ efi'.size = d
      BY <3>2, <3>3, <3>4 DEF EfiState
    <3> QED
      BY Zenon, <3>5 DEF d
  <2>2. NoBufferPilesUp' /\ Buffer' = {} /\ Bare' = Bare
    BY Zenon, <1>5, <1>7, <2>1, BufferReleased
  <2>3. UefiTyped'
    BY ZenonT(40), <1>1, <1>5, <1>7, <2>1 DEF UefiInv, UefiTyped
  <2>4. PagesApart'
    BY ZenonT(40), <2>1, <2>2 DEF UefiInv, PagesApart
  <2>5. MapFresh'
    BY Zenon, <2>1 DEF MapFresh
  <2>6. ChangesCounted'
    <3> SUFFICES ASSUME events < Retries
                 PROVE  /\ efi.attempt <= events
                        /\ efi.attempt + (efi.tries + 1) <= events
                        /\ Bare + 2 + 3 * (efi.tries + 1)
                             <= (Descriptors(mem) + Slop) + 2 * (events - efi.attempt)
      BY ZenonT(40), <1>1, <2>1, <2>2 DEF ChangesCounted
    <3>1. /\ efi.attempt <= events
          /\ Bare + 2 + 3 * efi.tries <= efi.size + 2 * (events - efi.attempt)
      BY Zenon, <1>1 DEF UefiInv, ChangesCounted
    <3>2. Slop \in Nat /\ Slop >= 2 /\ events \in Nat
      BY <1>2, UefiConstants
    <3>3. Descriptors(mem) >= efi.size + 1
      BY <1>2, <1>3, <1>7
    <3>4. 1 + 3 * efi.tries <= 2 * (events - efi.attempt)
      BY <1>2, <1>3, <3>1, <3>2, <3>3
    <3> HIDE DEF e
    <3> QED
      BY SMTT(30), <1>2, <1>3, <3>1, <3>2, <3>3, <3>4
  <2> QED
    BY ZenonT(40), <2>2, <2>3, <2>4, <2>5, <2>6 DEF UefiInv
<1>8. CASE /\ SetType(efi.memory_map, "EfiConventionalMemory")
           /\ efi' = [FreePool(efi) EXCEPT !.pc = "failed"] /\ denied' = TRUE
  <2> HIDE DEF e
  <2>1. efi' = [e EXCEPT !.pc = "failed"]
    BY Zenon, <1>8 DEF e
  <2>2. /\ efi' \in EfiState /\ efi'.pc = "failed" /\ efi'.attempt = efi.attempt
        /\ efi'.loaded = efi.loaded /\ efi'.info_page = efi.info_page
        /\ efi'.memory_map = Null
    BY <1>4, <2>1 DEF EfiState
  <2>3. NoBufferPilesUp' /\ Buffer' = {}
    BY ZenonT(40), <1>5, <1>8, <2>2, BufferReleased
  <2>4. UefiTyped'
    BY ZenonT(40), <1>1, <1>5, <1>8, <2>2 DEF UefiInv, UefiTyped
  <2> QED
    BY ZenonT(40), <1>1, <1>8, <2>2, <2>3, <2>4, EndKeeps
<1> QED
  BY Zenon, <1>6, <1>7, <1>8 DEF GetMap

(* The memory map is translated to the types of Multiboot. *)
LEMMA BuildInfoKeeps ==
    ASSUME UefiInv, BuildInfo
    PROVE  UefiInv'
<1>1. UNCHANGED <<blob, fwVars, events>> /\ efi.pc = "build"
  BY Zenon DEF BuildInfo, Refuse
<1>2. CASE Refuse
  BY ZenonT(40), <1>1, <1>2, RefuseKeeps DEF Refuse
<1>3. CASE /\ info' = [p \in Frame |-> gnuos_efi_memory_type_to_multiboot(efi.map[p])]
           /\ Goto("exit") /\ UNCHANGED denied
  <2>1. /\ efi' \in EfiState /\ efi'.pc = "exit" /\ efi'.attempt = efi.attempt
        /\ efi'.loaded = efi.loaded /\ efi'.info_page = efi.info_page
        /\ efi'.memory_map = efi.memory_map /\ efi'.map = efi.map
    BY ZenonT(40), <1>3 DEF Goto, UefiInv, UefiTyped, EfiState
  <2>2. Buffer' = Buffer
    BY Zenon, <2>1 DEF Buffer
  <2>3. UefiTyped'
    BY ZenonT(40), <1>1, <1>3, <2>1 DEF UefiInv, UefiTyped, fwVars
  <2>4. NoBufferPilesUp' /\ PagesApart'
    BY Zenon, <1>1, <2>1, <2>2 DEF UefiInv, NoBufferPilesUp, PagesApart, fwVars
  <2>5. info' = Told(efi'.map)
    BY <1>3, <2>1, Zenon DEF Told
  <2>6. MapFresh' /\ ChangesCounted'
    BY Zenon, <1>1, <2>1, <2>5 DEF UefiInv, MapFresh, ChangesCounted, fwVars
  <2> QED
    BY ZenonT(40), <2>3, <2>4, <2>6 DEF UefiInv
<1> QED
  BY Zenon, <1>2, <1>3 DEF BuildInfo

(* ExitBootServices ends the firmware if the map is current, and otherwise *)
(* costs an attempt.                                                       *)
LEMMA ExitKeeps ==
    ASSUME UefiInv, ExitBootServices
    PROVE  UefiInv'
<1>1. UNCHANGED <<blob, fwVars, info, events>> /\ efi.pc = "exit"
  BY Zenon DEF ExitBootServices, Refuse
<1>2. CASE Refuse
  BY ZenonT(40), <1>1, <1>2, RefuseKeeps DEF Refuse
<1>3. CASE key_valid /\ Goto("kmain") /\ UNCHANGED denied
  <2>1. /\ efi' \in EfiState /\ efi'.pc = "kmain" /\ efi'.attempt = efi.attempt
        /\ efi'.loaded = efi.loaded /\ efi'.info_page = efi.info_page
        /\ efi'.memory_map = efi.memory_map
    BY ZenonT(40), <1>3 DEF Goto, UefiInv, UefiTyped, EfiState
  <2>2. Buffer' = Buffer
    BY Zenon, <2>1 DEF Buffer
  <2>3. UefiTyped'
    BY ZenonT(40), <1>1, <1>3, <2>1 DEF UefiInv, UefiTyped, fwVars
  <2>4. NoBufferPilesUp' /\ PagesApart'
    BY ZenonT(40), <1>1, <2>1, <2>2 DEF UefiInv, NoBufferPilesUp, PagesApart, fwVars
  <2>5. info = Told(efi.map) /\ efi.map = mem
    BY ZenonT(40), <1>1, <1>3 DEF UefiInv, MapFresh
  <2>6. info' = Told(mem')
    BY Zenon, <1>1, <2>5 DEF fwVars
  <2>7. MapFresh' /\ ChangesCounted'
    BY Zenon, <1>1, <2>1, <2>6 DEF UefiInv, MapFresh, ChangesCounted
  <2> QED
    BY Zenon, <2>3, <2>4, <2>7 DEF UefiInv
<1>4. CASE /\ ~key_valid /\ UNCHANGED denied
           /\ efi' = [efi EXCEPT !.pc = "attempt", !.attempt = next_attempt(@)]
  <2> DEFINE e == [efi EXCEPT !.pc = "attempt"]
  <2>1. /\ e \in EfiState /\ e.pc = "attempt" /\ e.attempt = efi.attempt
        /\ e.loaded = efi.loaded /\ e.info_page = efi.info_page
        /\ e.memory_map = efi.memory_map /\ efi.attempt \in Nat
    BY Zenon DEF UefiInv, UefiTyped, EfiState
  <2>2. efi' = [e EXCEPT !.attempt = efi.attempt + 1]
    BY <1>4, ZenonT(40) DEF next_attempt
  <2> HIDE DEF e
  <2>3. /\ efi' \in EfiState /\ efi'.pc = "attempt" /\ efi'.attempt = efi.attempt + 1
        /\ efi'.loaded = efi.loaded /\ efi'.info_page = efi.info_page
        /\ efi'.memory_map = efi.memory_map
    BY <2>1, <2>2 DEF EfiState
  <2>4. Buffer' = Buffer
    BY Zenon, <2>3 DEF Buffer
  <2>5. UefiTyped'
    BY Zenon, <1>1, <1>4, <2>3 DEF UefiInv, UefiTyped, fwVars
  <2>6. NoBufferPilesUp' /\ PagesApart'
    BY ZenonT(40), <1>1, <2>3, <2>4 DEF UefiInv, NoBufferPilesUp, PagesApart, fwVars
  <2>7. MapFresh' /\ ChangesCounted'
    BY ZenonT(40), <1>1, <1>4, <2>3 DEF UefiInv, MapFresh, ChangesCounted
  <2> QED
    BY Zenon, <2>5, <2>6, <2>7 DEF UefiInv
<1> QED
  BY Zenon, <1>2, <1>3, <1>4 DEF ExitBootServices

(* A change of the firmware makes the key stale, is counted, and moves the *)
(* size of the map by two descriptors at most.                             *)
LEMMA FirmwareEventKeeps ==
    ASSUME UefiInv, FirmwareEvent
    PROVE  UefiInv'
<1>1. /\ UNCHANGED <<blob, efi, info, denied>> /\ efi.pc \notin {"kmain", "failed"}
      /\ events' = IF events < Retries THEN events + 1 ELSE events
  BY Zenon DEF FirmwareEvent
<1>2. /\ efi \in EfiState /\ events \in 0..Retries /\ efi.attempt \in Nat /\ efi.tries \in Nat
      /\ efi.size \in Nat
  BY Zenon DEF UefiInv, UefiTyped, EfiState
<1>20. PICK q \in Frame : \E type \in FirmwareType[q] :
         mem[q] \notin {"EfiLoaderData", type} /\ SetType({q}, type)
  BY Zenon DEF FirmwareEvent
<1>3. PICK type \in FirmwareType[q] :
        mem[q] \notin {"EfiLoaderData", type} /\ SetType({q}, type)
  BY Zenon, <1>20
<1>4. type \in MemoryType /\ type # "EfiLoaderData" /\ {q} \in SUBSET Frame
  BY Zenon, UefiConstants
<1>5. /\ mem' \in [Frame -> MemoryType]
      /\ \A p \in Frame : mem'[p] = IF p \in {q} THEN type ELSE mem[p]
  BY Zenon, <1>3, <1>4, SetTypeEffect DEF UefiInv
<1>6. key_valid' = FALSE
  BY Zenon, <1>3 DEF SetType
<1>7. Buffer' = Buffer
  BY Zenon, <1>1 DEF Buffer
<1>8. events' \in 0..Retries /\ (events' < Retries => events < Retries /\ events' = events + 1)
  BY <1>1, <1>2, UefiConstants
<1>9. UefiTyped'
  BY Zenon, <1>1, <1>5, <1>6, <1>8 DEF UefiInv, UefiTyped
<1>10. NoBufferPilesUp' /\ PagesApart'
  BY ZenonT(40), <1>1, <1>3, <1>4, <1>5, <1>7 DEF UefiInv, NoBufferPilesUp, PagesApart
<1>11. MapFresh'
  BY Zenon, <1>1, <1>6 DEF UefiInv, MapFresh
<1>12. Bare \in Nat /\ Bare' \in Nat /\ Bare' <= Bare + 2
  <2> DEFINE m == [p \in Frame |-> IF p \in Buffer THEN "EfiConventionalMemory" ELSE mem[p]]
             n == [p \in Frame |-> IF p \in Buffer' THEN "EfiConventionalMemory" ELSE mem'[p]]
  <2>1. Bare = Descriptors(m) /\ Bare' = Descriptors(n)
    BY Zenon DEF Bare
  <2>2. \A p \in Frame : p # q => m[p] = n[p]
    BY Zenon, <1>5, <1>7
  <2> HIDE DEF m, n
  <2> QED
    BY Zenon, <2>1, <2>2, OnePageTwoDescriptors
<1>13. ChangesCounted'
  BY <1>1, <1>2, <1>8, <1>12 DEF UefiInv, ChangesCounted
<1> QED
  BY ZenonT(40), <1>9, <1>10, <1>11, <1>13 DEF UefiInv

(* The firmware hands over with no page of the loader's. *)
LEMMA UefiInit == efi_init => UefiInv
<1> SUFFICES ASSUME efi_init PROVE UefiInv
  BY Zenon
<1>1. mem \in [Frame -> MemoryType] /\ \A p \in Frame : mem[p] # "EfiLoaderData"
  BY Zenon, UefiConstants DEF efi_init
<1>2. efi \in EfiState
  BY Zenon DEF efi_init, EfiState
<1>3. UefiTyped
  <2>1. events \in 0..Retries
    BY SMTT(30), UefiConstants DEF efi_init
  <2>2. blob \in Blob /\ key_valid \in BOOLEAN /\ denied \in BOOLEAN
    BY ZenonT(40) DEF efi_init
  <2> QED
    BY ZenonT(40), <1>1, <1>2, <2>1, <2>2 DEF UefiTyped
<1>4. /\ efi.pc = "blob" /\ efi.memory_map = Null /\ efi.loaded = {} /\ efi.info_page = {}
      /\ efi.attempt = 0 /\ events = 0
  BY ZenonT(40) DEF efi_init
<1>5. PagesApart /\ NoBufferPilesUp
  BY ZenonT(40), <1>1, <1>4 DEF PagesApart, NoBufferPilesUp, Buffer
<1>6. MapFresh /\ ChangesCounted
  BY <1>4, UefiConstants DEF MapFresh, ChangesCounted
<1> QED
  BY Zenon, <1>3, <1>5, <1>6 DEF UefiInv

(* What kmain is told of a page follows from its type. *)
LEMMA UefiInvExact == UefiInv => HandoffExact
<1> SUFFICES ASSUME UefiInv PROVE HandoffExact
  BY Zenon
<1>1. RetriesSuffice
  BY SMTT(30), UefiConstants DEF UefiInv, UefiTyped, ChangesCounted, RetriesSuffice
<1>2. HandoffMapTrue
  <2> SUFFICES ASSUME efi.pc = "kmain"
               PROVE  /\ \A p \in Frame : info[p] = "MULTIBOOT2_MEMORY_AVAILABLE" <=>
                                            mem[p] # "EfiRuntimeServicesData"
                      /\ \A p \in efi.loaded \cup efi.info_page : mem[p] = "EfiLoaderData"
                      /\ efi.loaded \cap efi.info_page = {}
    BY Zenon DEF HandoffMapTrue
  <2>1. info = Told(mem)
    BY Zenon DEF UefiInv, MapFresh
  <2>2. \A p \in Frame : info[p] = gnuos_efi_memory_type_to_multiboot(mem[p])
    BY <2>1, Zenon DEF Told
  <2>3. \A p \in Frame : mem[p] \in MemoryType
    BY Zenon DEF UefiInv, UefiTyped
  <2>4. \A p \in Frame : info[p] = "MULTIBOOT2_MEMORY_AVAILABLE" <=>
                            mem[p] # "EfiRuntimeServicesData"
    BY ZenonT(40), <2>2, <2>3 DEF gnuos_efi_memory_type_to_multiboot, MemoryType
  <2> QED
    BY Zenon, <2>4 DEF UefiInv, NoBufferPilesUp, PagesApart
<1> QED
  BY Zenon, <1>1, <1>2 DEF UefiInv, HandoffExact, HandoffSound

(* The loader, for every size of memory, every kernel file, every number   *)
(* of retries and every behaviour of the firmware: kmain is entered only   *)
(* with a map that is still true, attempts leave no buffer behind, and     *)
(* the loader gives up only if it was denied something or the map changed  *)
(* as often as it may try (efi_main, gnuos_fetch_memory_map).              *)
THEOREM HandoffIsExact == UefiSpec => []HandoffExact
<1>1. ASSUME UefiInv, [UefiNext]_uefiVars PROVE UefiInv'
  <2>1. CASE CheckBlob
    BY Zenon, <1>1, <2>1, CheckBlobKeeps
  <2>2. CASE LoadSegment
    BY Zenon, <1>1, <2>2, LoadSegmentKeeps
  <2>3. CASE Prepare
    BY Zenon, <1>1, <2>3, PrepareKeeps
  <2>4. CASE BeginAttempt
    BY Zenon, <1>1, <2>4, BeginAttemptKeeps
  <2>5. CASE AllocMap
    BY Zenon, <1>1, <2>5, AllocMapKeeps
  <2>6. CASE GetMap
    BY Zenon, <1>1, <2>6, GetMapKeeps
  <2>7. CASE BuildInfo
    BY Zenon, <1>1, <2>7, BuildInfoKeeps
  <2>8. CASE ExitBootServices
    BY Zenon, <1>1, <2>8, ExitKeeps
  <2>9. CASE FirmwareEvent
    BY Zenon, <1>1, <2>9, FirmwareEventKeeps
  <2>10. CASE UNCHANGED uefiVars
    BY ZenonT(40), <1>1, <2>10 DEF uefiVars, UefiInv, UefiTyped, PagesApart, NoBufferPilesUp, MapFresh,
                       ChangesCounted, Bare, Buffer
  <2> QED
    BY ZenonT(40), <1>1, <2>1, <2>2, <2>3, <2>4, <2>5, <2>6, <2>7, <2>8, <2>9, <2>10 DEF UefiNext, EfiStep
<1> QED
  BY <1>1, UefiInit, UefiInvExact, PTL DEF UefiSpec

=============================================================================
