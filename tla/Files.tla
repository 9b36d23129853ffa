-------------------------------- MODULE Files --------------------------------
\* What the file calls of SPIFFS promise, whatever is cached below them: a write is
\* in the file when the call returns, every descriptor of the file sees it, and bytes
\* are only ever lost when the caller is told that something failed.
EXTENDS FileBytes

CONSTANTS
    Fds, Ids,          \* descriptors and object ids
    Writes,            \* the byte sequences written
    Lost               \* the content of a file after a call on it has failed

VARIABLES
    file,      \* the content of each file, by object id
    pos,       \* the open descriptors: which file, at which offset, appending or not
    errno      \* the error that is left

Content(f) == file[pos[f].id]
Known(f) == Content(f) # Lost
OpenOn(id) == {f \in DOMAIN pos : pos[f].id = id}
SetFile(id, content) == [i \in DOMAIN file \union {id} |-> IF i = id THEN content ELSE file[i]]

Init == file = <<>> /\ pos = <<>> /\ errno = "OK"

Open(f, id, append) ==
    /\ f \notin DOMAIN pos
    /\ \/ id \in DOMAIN file /\ file' \in {file, SetFile(id, <<>>)}
       \/ id \notin DOMAIN file /\ file' = SetFile(id, <<>>)
    /\ pos' = [g \in DOMAIN pos \union {f} |->
                IF g = f THEN [id |-> id, offset |-> 0, append |-> append] ELSE pos[g]]
    /\ errno' = "OK"

\* An appending descriptor writes at the end, and its own offset moves all the same.
Write(f, bytes) ==
    /\ Known(f)
    /\ LET offset == IF pos[f].append THEN Len(Content(f)) ELSE pos[f].offset
       IN file' = SetFile(pos[f].id, Overwrite(Content(f), offset, bytes))
    /\ pos' = [pos EXCEPT ![f].offset = @ + Len(bytes)]
    /\ errno' = "OK"

\* Reading and searching move the offset inside the file.
Move(f) ==
    /\ Known(f)
    /\ \E offset \in 0 .. Len(Content(f)) : pos' = [pos EXCEPT ![f].offset = offset]
    /\ UNCHANGED file /\ errno' = "OK"

Close(fs) == pos' = [g \in DOMAIN pos \ fs |-> pos[g]]

Remove(id) ==
    /\ file' = [i \in DOMAIN file \ {id} |-> file[i]]
    /\ Close(OpenOn(id))
    /\ errno' = "OK"

CloseOne(f) == Close({f}) /\ UNCHANGED file /\ errno' = "OK"

\* What a reset may take: bytes of files that are open.
Mount ==
    /\ pos' = <<>> /\ errno' = "OK"
    /\ DOMAIN file' = DOMAIN file
    /\ \A id \in DOMAIN file : file'[id] = file[id] \/ (OpenOn(id) # {} /\ file'[id] = Lost)

\* A call that fails, or that follows one that failed on the file, promises nothing of
\* that file and of its own descriptor, and everything of the others.
Fail(f) ==
    /\ file' = SetFile(pos[f].id, Lost)
    /\ Known(f) => errno' # "OK"
    /\ DOMAIN pos \ {f} \subseteq DOMAIN pos' /\ DOMAIN pos' \subseteq DOMAIN pos
    /\ \A g \in DOMAIN pos \ {f} : pos'[g] = pos[g]

\* A call that only moves bytes from the cache to the flash, and one that is refused.
Unseen == UNCHANGED <<file, pos>> /\ errno' \in {"OK", "FULL"}

Next ==
    \/ Unseen
    \/ \E f \in Fds, id \in Ids, append \in BOOLEAN : Open(f, id, append)
    \/ \E f \in DOMAIN pos :
          \/ \E bytes \in Writes : Write(f, bytes)
          \/ Move(f) \/ CloseOne(f) \/ Fail(f)
    \/ \E id \in DOMAIN file : Remove(id)
    \/ Mount

vars == <<file, pos, errno>>
Spec == Init /\ [][Next]_vars
==============================================================================
