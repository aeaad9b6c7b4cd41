-------------------------------- MODULE Libc --------------------------------
(***************************************************************************)
(* Descriptors and mappings of the C library, userspace/libc/ldso/x86_64.  *)
(* libc_stub.c and ldso_bootstrap.c hold the same functions, line for      *)
(* line; the socket and file functions are read in the first, mmap in the  *)
(* second.  There is one thread.  Calls that fail change nothing but       *)
(* errno, which is left out, and so are the calls that change nothing      *)
(* (bind, accept, send, recv, fstat, munmap, mprotect) and the arguments   *)
(* that are only stored (domain, type, protocol, flags).                   *)
(*                                                                         *)
(* Beside the tables of the library, fds holds what a program may believe  *)
(* of each descriptor that it has: a fresh object at every open, changed   *)
(* by what the program did to it since.                                    *)
(***************************************************************************)
EXTENDS Integers, FiniteSets

CONSTANTS SocketMax, SocketBase,     \* GNUOS_SOCKET_MAX, GNUOS_SOCKET_FD_BASE
          FileMax, FileBase,         \* GNUOS_FILE_MAX, GNUOS_FILE_FD_BASE
          MaxOffset,                 \* bound: file offsets
          PoolSize,                  \* GNUOS_MMAN_POOL_SIZE, in the model's bytes
          MapPage,                   \* 4096
          SizeEnd,                   \* 2^64
          MapLength                  \* lengths asked of mmap

(* The two ranges of descriptors do not meet: 3 + 32 <= 64. *)
ASSUME LibcAssumption ==
    /\ SocketMax \in Nat /\ FileMax \in Nat /\ SocketBase \in Nat /\ FileBase \in Nat
    /\ SocketBase + SocketMax <= FileBase
    /\ MapPage \in Nat \ {0} /\ SizeEnd \in Nat /\ PoolSize \in Nat
    /\ SizeEnd % MapPage = 0 /\ PoolSize <= SizeEnd - MapPage
    /\ MapLength \subseteq 0..(SizeEnd - 1)

VARIABLES
    g_socket_table, g_file_table,
    fds,                             \* history: see above
    g_mmap_pool_next,
    mappings                         \* history: <<start, granted, asked>> of each mmap

fdVars == <<g_socket_table, g_file_table, fds>>
mapVars == <<g_mmap_pool_next, mappings>>
libcVars == <<fdVars, mapVars>>

SocketIndex == 0..(SocketMax - 1)
FileIndex == 0..(FileMax - 1)

NewSocket == [in_use |-> TRUE, connected |-> FALSE, listening |-> FALSE, shutdown_how |-> -1]
NewFile == [in_use |-> TRUE, mode |-> "default", offset |-> 0, size |-> 0]

libc_init ==
    /\ g_socket_table = [i \in SocketIndex |->
          [in_use |-> FALSE, connected |-> FALSE, listening |-> FALSE, shutdown_how |-> 0]]
    /\ g_file_table = [i \in FileIndex |->
          [in_use |-> FALSE, mode |-> "none", offset |-> 0, size |-> 0]]
    /\ fds = [fd \in {} |-> 0]
    /\ g_mmap_pool_next = 0 /\ mappings = {}

Fresh(fd, object) ==
    fds' = [f \in DOMAIN fds \cup {fd} |-> IF f = fd THEN object ELSE fds[f]]

-----------------------------------------------------------------------------
(* The entry of a descriptor: gnuos_socket_get, gnuos_file_get. *)
gnuos_socket_get(fd, i) ==
    i = fd - SocketBase /\ i \in SocketIndex /\ g_socket_table[i].in_use
gnuos_file_get(fd, i) ==
    i = fd - FileBase /\ i \in FileIndex /\ g_file_table[i].in_use

(* The lowest entry that is not in use. *)
FirstUnused(table, i) == ~table[i].in_use /\ \A j \in DOMAIN table : j < i => table[j].in_use

(* socket, with gnuos_socket_alloc_fd, for a supported domain and type. *)
socket ==
    \E i \in SocketIndex :
        /\ FirstUnused(g_socket_table, i)
        /\ g_socket_table' = [g_socket_table EXCEPT ![i] = NewSocket]
        /\ Fresh(SocketBase + i, NewSocket)
        /\ UNCHANGED g_file_table

(* listen, connect and shutdown set one field each. *)
SetSocket(fd, object(_)) ==
    \E i \in SocketIndex :
        /\ gnuos_socket_get(fd, i)
        /\ g_socket_table' = [g_socket_table EXCEPT ![i] = object(g_socket_table[i])]
        /\ fds' = [fds EXCEPT ![fd] = object(fds[fd])]
        /\ UNCHANGED g_file_table

listen(fd) == SetSocket(fd, LAMBDA o : [o EXCEPT !.listening = TRUE])
connect(fd) == SetSocket(fd, LAMBDA o : [o EXCEPT !.connected = TRUE])
shutdown(fd) == \E how \in 0..2 : SetSocket(fd, LAMBDA o : [o EXCEPT !.shutdown_how = how])

(* Mutant: the size that the file of this entry had before is kept. *)
alloc_keeps_size(entry) == [NewFile EXCEPT !.size = entry.size]

(* gnuos_file_alloc_fd sets every field. *)
alloc_entry(entry) == NewFile

(* open, with gnuos_file_alloc_fd: of a path that begins with / or a dot. *)
open ==
    \E i \in FileIndex :
        /\ FirstUnused(g_file_table, i)
        /\ g_file_table' = [g_file_table EXCEPT ![i] = alloc_entry(@)]
        /\ Fresh(FileBase + i, NewFile)
        /\ UNCHANGED g_socket_table

SetFile(fd, object(_)) ==
    \E i \in FileIndex :
        /\ gnuos_file_get(fd, i)
        /\ object(g_file_table[i]).offset \in -MaxOffset..MaxOffset
        /\ g_file_table' = [g_file_table EXCEPT ![i] = object(g_file_table[i])]
        /\ fds' = [fds EXCEPT ![fd] = object(fds[fd])]
        /\ UNCHANGED g_socket_table

(* The cast of a size_t: its upper half is negative. *)
off_t(n) == IF n >= SizeEnd \div 2 THEN n - SizeEnd ELSE n

(* Reading gives zeros, also beyond the end. *)
read(fd, n) == SetFile(fd, LAMBDA o : [o EXCEPT !.offset = @ + off_t(n)])

(* A count of the upper half moves the offset back, below 0 if need be. *)
write(fd, n) ==
    LET end(o) == o.offset + off_t(n)
    IN  SetFile(fd, LAMBDA o : [o EXCEPT !.offset = end(o),
                                         !.size = IF end(o) > @ THEN end(o) ELSE @])

(* SEEK_SET, SEEK_CUR and SEEK_END; a negative result is refused. *)
lseek(fd, n) ==
    \E whence \in {"SEEK_SET", "SEEK_CUR", "SEEK_END"} :
        LET new_offset(o) == n + CASE whence = "SEEK_SET" -> 0
                                   [] whence = "SEEK_CUR" -> o.offset
                                   [] whence = "SEEK_END" -> o.size
        IN  /\ \A i \in FileIndex : gnuos_file_get(fd, i) => new_offset(g_file_table[i]) >= 0
            /\ SetFile(fd, LAMBDA o : [o EXCEPT !.offset = new_offset(o)])

fchmod(fd) == SetFile(fd, LAMBDA o : [o EXCEPT !.mode = "changed"])

(* close leaves the other fields as they are. *)
close(fd) ==
    /\ \/ \E i \in SocketIndex :
             /\ gnuos_socket_get(fd, i)
             /\ g_socket_table' = [g_socket_table EXCEPT
                   ![i].in_use = FALSE, ![i].connected = FALSE, ![i].listening = FALSE]
             /\ UNCHANGED g_file_table
       \/ \E i \in FileIndex :
             /\ gnuos_file_get(fd, i)
             /\ g_file_table' = [g_file_table EXCEPT ![i].in_use = FALSE, ![i].offset = 0]
             /\ UNCHANGED g_socket_table
    /\ fds' = [f \in DOMAIN fds \ {fd} |-> fds[f]]

Descriptor == 0..(FileBase + FileMax)

FdNext ==
    /\ \/ socket \/ open
       \/ \E fd \in Descriptor :
             \/ listen(fd) \/ connect(fd) \/ shutdown(fd) \/ close(fd) \/ fchmod(fd)
             \/ \E n \in 1..2 : read(fd, n)              \* it fills the buffer first
             \/ \E n \in {1, 2, SizeEnd - 1} : write(fd, n)
             \/ \E n \in -1..1 : lseek(fd, n)
    /\ UNCHANGED mapVars

-----------------------------------------------------------------------------
gnuos_align_up(value) == (((value + MapPage - 1) % SizeEnd) \div MapPage) * MapPage

(* mmap without MAP_FIXED; nothing is ever given back by munmap. *)
mmap(length) ==
    LET aligned_length == gnuos_align_up(length)
        next == g_mmap_pool_next
    IN  /\ length # 0 /\ next <= PoolSize /\ aligned_length <= PoolSize - next
        /\ g_mmap_pool_next' = next + aligned_length
        /\ mappings' = mappings \cup {<<next, aligned_length, length>>}

MapNext == (\E length \in MapLength : mmap(length)) /\ UNCHANGED fdVars

LibcSpec == libc_init /\ [][FdNext \/ MapNext]_libcVars

-----------------------------------------------------------------------------
(* What a program believes of its descriptors is what the tables hold: a   *)
(* descriptor handed out by socket or open is not already in use, starts   *)
(* clean whatever the entry held before close, and is changed only by the  *)
(* calls made on it.                                                       *)
DescriptorsExact ==
    /\ DOMAIN fds = {SocketBase + i : i \in {j \in SocketIndex : g_socket_table[j].in_use}}
               \cup {FileBase + i : i \in {j \in FileIndex : g_file_table[j].in_use}}
    /\ \A i \in SocketIndex :
          g_socket_table[i].in_use => fds[SocketBase + i] = g_socket_table[i]
    /\ \A i \in FileIndex :
          g_file_table[i].in_use => fds[FileBase + i] = g_file_table[i]

(* The ranges that mmap hands out lie in the pool, do not overlap, and     *)
(* hold the bytes asked for, except for a length that gnuos_align_up wraps *)
(* to zero.                                                                *)
MappingsApart ==
    \A m \in mappings :
        /\ m[1] + m[2] <= PoolSize
        /\ m[3] <= SizeEnd - MapPage => m[2] >= m[3]
        /\ \A n \in mappings : n # m => m[1] + m[2] <= n[1] \/ n[1] + n[2] <= m[1]

(* Descriptors and mappings are what the program was told they are (open,  *)
(* close, socket, mmap).                                                   *)
LibcExact == DescriptorsExact /\ MappingsApart

-----------------------------------------------------------------------------
(* Why they hold: the tables keep their shape, and every mapping ends at   *)
(* or below the part of the pool that is still to be handed out.           *)
SocketEntry ==
    [in_use : BOOLEAN, connected : BOOLEAN, listening : BOOLEAN, shutdown_how : -1..2]
FileEntry ==
    [in_use : BOOLEAN, mode : {"none", "default", "changed"}, offset : Int, size : Int]

TablesTyped ==
    /\ g_socket_table \in [SocketIndex -> SocketEntry]
    /\ g_file_table \in [FileIndex -> FileEntry]
    /\ fds = [fd \in DOMAIN fds |-> fds[fd]]

PoolInv ==
    /\ g_mmap_pool_next \in 0..PoolSize
    /\ mappings \subseteq Nat \X Nat \X Nat
    /\ \A m \in mappings : m[1] + m[2] <= g_mmap_pool_next

LibcInv == TablesTyped /\ PoolInv /\ LibcExact

=============================================================================
