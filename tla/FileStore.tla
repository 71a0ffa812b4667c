------------------------------ MODULE FileStore ------------------------------
(* What the file system promises programs: files that are sequences of words,
   open files with a position, and calls that act on them at once.  Blocks,
   buffers, locks and the copy of the directory do not show. *)
EXTENDS Integers, Sequences

CONSTANTS FileNo,      \* numbers of files
          Directory,    \* the number of the directory, which can only be read
          DirectorySize,
          MaxSize,      \* words a file can have
          Handle,       \* numbers of open files
          FileName, FileWord, Offset

VARIABLES files,    \* the data of each file, or NoFile
          handles,  \* [file, pos] of each open file, or NoHandle
          heard     \* the word last read from a file

fvars == <<files, handles, heard>>

NoFile   == [name |-> "none"]
NoHandle == [file |-> -1]

IsOpen(k) == handles[k] # NoHandle
Size(i)   == IF i = Directory THEN DirectorySize ELSE Len(files[i].data)
MoveTo(k, pos) == handles' = [handles EXCEPT ![k].pos = pos]

Init == /\ files = [i \in FileNo |-> IF i = Directory THEN [name |-> "root", data |-> <<>>]
                                      ELSE NoFile]
        /\ handles = [k \in Handle |-> NoHandle]
        /\ heard \in FileWord

Create(i, n) == /\ files[i] = NoFile
                /\ files' = [files EXCEPT ![i] = [name |-> n, data |-> <<>>]]
                /\ UNCHANGED <<handles, heard>>

\* A file that is open is not deleted.
Delete(i) == /\ i # Directory /\ files[i] # NoFile
             /\ \A k \in Handle : handles[k].file # i
             /\ files' = [files EXCEPT ![i] = NoFile]
             /\ UNCHANGED <<handles, heard>>

Open(k, i) == /\ ~IsOpen(k) /\ files[i] # NoFile
              /\ handles' = [handles EXCEPT ![k] = [file |-> i, pos |-> 0]]
              /\ UNCHANGED <<files, heard>>

Close(k) == /\ IsOpen(k)
            /\ handles' = [handles EXCEPT ![k] = NoHandle]
            /\ UNCHANGED <<files, heard>>

\* A position is never past the end, nor before the beginning.
Seek(k, d) == LET h == handles[k]
              IN  /\ IsOpen(k) /\ h.pos + d >= 0
                  /\ MoveTo(k, IF h.pos + d > Size(h.file) THEN Size(h.file) ELSE h.pos + d)
                  /\ UNCHANGED <<files, heard>>

Read(k) == LET h == handles[k]
           IN  /\ IsOpen(k) /\ h.pos < Size(h.file)
               /\ MoveTo(k, h.pos + 1)
               /\ IF h.file = Directory THEN UNCHANGED heard
                  ELSE heard' = files[h.file].data[h.pos + 1]
               /\ UNCHANGED files

Write(k, w) == LET h == handles[k]
               IN  /\ IsOpen(k) /\ h.file # Directory
                   /\ h.pos < MaxSize /\ h.pos <= Size(h.file)
                   /\ MoveTo(k, h.pos + 1)
                   /\ files' = [files EXCEPT ![h.file].data =
                                  IF h.pos = Len(@) THEN Append(@, w)
                                  ELSE [@ EXCEPT ![h.pos + 1] = w]]
                   /\ UNCHANGED heard

Next == \/ \E i \in FileNo : (\E n \in FileName : Create(i, n)) \/ Delete(i)
        \/ \E k \in Handle : \/ \E i \in FileNo : Open(k, i)
                             \/ Close(k) \/ Read(k)
                             \/ \E d \in Offset : Seek(k, d)
                             \/ \E w \in FileWord : Write(k, w)

Spec == Init /\ [][Next]_fvars
=============================================================================
