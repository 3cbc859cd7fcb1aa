------------------------------ MODULE Secrets ------------------------------
(***************************************************************************)
(* What the shell does with the two attributes of a file, ENCRYPTED and    *)
(* HASHED: the commands enc, dec, edit, cp, rm, touch and sha, one after   *)
(* the other, and the loaders that exec starts and does not wait for,      *)
(* which check or append the hash of a program before they load it.        *)
(*                                                                         *)
(* The bytes of a file are a sequence: a text, and what was done to it     *)
(* since: "hash" is the SHA256 of all that precedes it, a key is SM4 with  *)
(* padding.  Bytes of which nothing can be said are <<"junk">>.  SM4 and   *)
(* SHA256 themselves are taken to be injective.  A command waits for the   *)
(* disk, so a loader may run between its reading and its writing; a        *)
(* command that is refused changes nothing and is no step.                 *)
(***************************************************************************)
EXTENDS Integers, Sequences, SequencesExt

CONSTANTS
    File, Key,     \* paths, and keys a user types
    Text,          \* texts a user types: a function from strings to sizes
    Loader,        \* processes that run process_program
    MAX_CMDS       \* bound: commands and execs

HASH_SIZE == 32
Absent == <<>>
EMPTY == "empty"
Junk == <<"junk">>

ASSUME SecretsAssumption ==
    /\ Text \in [DOMAIN Text -> Nat] /\ EMPTY \in DOMAIN Text /\ Text[EMPTY] = 0
    /\ Key \cap (DOMAIN Text \cup {"hash", "cut", "last", "junk"}) = {}
    /\ DOMAIN Text \cap {"hash", "cut", "last", "junk"} = {}
    /\ MAX_CMDS \in Nat

VARIABLES
    content, attr,   \* of the files: bytes, and the attributes of the inode
    deny,            \* files with INODE_WRITE_DENY
    keys,            \* the records of /keys: path and key
    cmd,             \* the shell's command and what it has read
    loader,          \* the loaders, and what they have read
    plain,           \* history: what a file says to its user
    seals,           \* history: the bytes to which a loader appended their own hash
    spoiled,         \* history: files whose bytes nothing is said of, see Spoils
    cmds

files == <<content, attr, deny, keys>>
history == <<plain, seals, spoiled>>
vars == <<files, cmd, loader, history, cmds>>

Attr == {"encrypted", "hashed"}
Idle == [op |-> "idle"]
Resting == [pc |-> "idle"]

\* Types: attributes only of files that exist, and at most one record of a path.
TypeOK ==
    /\ DOMAIN content = File /\ attr \in [File -> SUBSET Attr]
    /\ \A f \in File : content[f] = Absent => attr[f] = {} /\ f \notin deny
    /\ deny \subseteq File /\ spoiled \subseteq File
    /\ \A i \in DOMAIN keys : keys[i] \in File \X Key
    /\ \A i, j \in DOMAIN keys : keys[i][1] = keys[j][1] => i = j
    /\ cmd.op \in {"idle", "enc", "keys", "dec", "edit", "cp"}
    /\ \A l \in Loader : loader[l].pc \in {"idle", "verify", "sha", "hash", "append",
                                           "write", "flag", "refused", "load"}
    /\ cmds \in 0..MAX_CMDS

----------------------------------------------------------------------------
(* crypto: sizes, SM4_ECB_Encrypt, SM4_ECB_Decrypt and SHA256.             *)

PKCS7_Padding(n) == (n \div 16 + 1) * 16

Size(c) ==
    LET Add(n, x) == CASE x \in DOMAIN Text -> Text[x]
                       [] x = "hash" -> n + HASH_SIZE
                       [] x \in Key -> PKCS7_Padding(n)
                       [] OTHER -> n + HASH_SIZE + 16
    IN FoldLeft(Add, 0, c)

SM4_ECB_Encrypt(c, k) == Append(c, k)

\* The unpadded length 0 of an empty text is taken for an error, and the padding stays.
SM4_ECB_Decrypt(c, k) ==
    IF Len(c) > 1 /\ Last(c) = k /\ Front(c) # <<EMPTY>> THEN Front(c) ELSE Junk

Hashed(c) == Last(c) = "hash"

\* Mutant: the stored hash is hashed too.
SHA256Whole(c, flags) == c
\* The bytes a digest is of: of a hashed file all but the last HASH_SIZE.
SHA256(c, flags) ==
    CASE "hashed" \notin flags -> c
      [] "hashed" \in flags /\ Hashed(c) -> Front(c)
      [] OTHER -> Append(c, "cut")

\* The digest at the end of the file, as the bytes it is of.
StoredHash(c) == IF Hashed(c) THEN Front(c) ELSE Append(c, "last")

----------------------------------------------------------------------------
(* The file system, as the commands use it.                                *)

Exists(f) == content[f] # Absent
openFileRDWR(f) == Exists(f) /\ f \notin deny

\* Loaders with a descriptor of f go on with an inode that has no name any more.
Detached(f) ==
    [l \in Loader |-> IF loader[l].pc \in {"write", "flag"} /\ loader[l].file = f
                      THEN [pc |-> "load", file |-> f, verdict |-> "appended", seen |-> Absent]
                      ELSE loader[l]]

Start(f, c) == cmds < MAX_CMDS /\ cmds' = cmds + 1 /\ cmd.op = "idle" /\ cmd' = c

\* The record of a path in /keys: the first, as every scan stops at it.
KeyRecord(f) == SelectInSeq(keys, LAMBDA r : r[1] = f)
HasKey(f, k) == KeyRecord(f) # 0 /\ keys[KeyRecord(f)][2] = k

\* Does a write by one who has read c and flags lose what another wrote since.
Spoils(f, c, flags) == content[f] # c \/ attr[f] # flags

Init ==
    /\ content \in [File -> {Absent, <<"long">>}] /\ plain = content
    /\ attr = [f \in File |-> {}] /\ deny = {} /\ keys = <<>>
    /\ cmd = Idle /\ loader = [l \in Loader |-> Resting]
    /\ seals = {} /\ spoiled = {} /\ cmds = 0

----------------------------------------------------------------------------
(* The commands of the shell.                                              *)

process_touch_command(f) ==
    /\ Start(f, Idle) /\ ~Exists(f)
    /\ content' = [content EXCEPT ![f] = <<EMPTY>>] /\ plain' = [plain EXCEPT ![f] = <<EMPTY>>]
    /\ spoiled' = spoiled \ {f}
    /\ UNCHANGED <<attr, deny, keys, loader, seals>>

\* The record in /keys stays.
process_rm_command(f) ==
    /\ Start(f, Idle) /\ Exists(f)
    /\ content' = [content EXCEPT ![f] = Absent] /\ attr' = [attr EXCEPT ![f] = {}]
    /\ deny' = deny \ {f} /\ loader' = Detached(f)
    /\ UNCHANGED <<keys, history>>

\* A reader that closes the file takes the mark away, whoever set it.
process_sha_command(f) ==
    /\ Start(f, Idle) /\ f \in deny
    /\ deny' = deny \ {f}
    /\ UNCHANGED <<content, attr, keys, loader, history>>

\* The file is opened for writing, its attributes and bytes are read.
process_enc_command(f, k) ==
    /\ Start(f, [op |-> "enc", file |-> f, key |-> k, seen |-> content[f], flags |-> attr[f]])
    /\ openFileRDWR(f) /\ "encrypted" \notin attr[f] /\ Size(content[f]) > 0
    /\ deny' = deny \cup {f}
    /\ UNCHANGED <<content, attr, keys, loader, history>>

enc_write ==
    LET f == cmd.file IN
    /\ cmd.op = "enc" /\ cmd' = [cmd EXCEPT !.op = "keys"]
    /\ content' = [content EXCEPT ![f] = IF @ = cmd.seen THEN SM4_ECB_Encrypt(@, cmd.key) ELSE Junk]
    /\ attr' = [attr EXCEPT ![f] = cmd.flags \cup {"encrypted"}]
    /\ deny' = deny \ {f}
    /\ spoiled' = IF Spoils(f, cmd.seen, cmd.flags) THEN spoiled \cup {f} ELSE spoiled
    /\ UNCHANGED <<keys, loader, plain, seals, cmds>>

\* Mutant: the record of an earlier key of the path is not looked for.
RecordAppended(f, k) == Append(keys, <<f, k>>)
Record(f, k) ==
    IF KeyRecord(f) # 0 THEN [keys EXCEPT ![KeyRecord(f)] = <<f, k>>] ELSE Append(keys, <<f, k>>)

enc_keys ==
    /\ cmd.op = "keys" /\ cmd' = Idle
    /\ keys' = Record(cmd.file, cmd.key)
    /\ UNCHANGED <<content, attr, deny, loader, history, cmds>>

process_dec_command(f, k) ==
    /\ Start(f, [op |-> "dec", file |-> f, key |-> k, seen |-> content[f], flags |-> attr[f]])
    /\ openFileRDWR(f) /\ "encrypted" \in attr[f] /\ HasKey(f, k)
    /\ deny' = deny \cup {f}
    /\ UNCHANGED <<content, attr, keys, loader, history>>

\* The text is written, the padding cut off, the attribute cleared.
dec_write ==
    LET f == cmd.file
        text == SM4_ECB_Decrypt(cmd.seen, cmd.key) IN
    /\ cmd.op = "dec" /\ cmd' = Idle
    /\ content' = [content EXCEPT ![f] = IF @ = cmd.seen THEN text ELSE Junk]
    /\ attr' = [attr EXCEPT ![f] = cmd.flags \ {"encrypted"}]
    /\ deny' = deny \ {f}
    /\ spoiled' = IF Spoils(f, cmd.seen, cmd.flags) \/ text = Junk THEN spoiled \cup {f} ELSE spoiled
    /\ UNCHANGED <<keys, loader, plain, seals, cmds>>

\* The file is read and closed; the key of an encrypted one is asked for.
editor_main(f, k) ==
    /\ Start(f, [op |-> "edit", file |-> f, key |-> k, seen |-> content[f], flags |-> attr[f]])
    /\ openFileRDWR(f) /\ ("encrypted" \in attr[f] => HasKey(f, k))
    /\ UNCHANGED <<files, loader, history>>

\* The text in the buffer when the file has been read, and the bytes that are written for one.
Shown == IF "encrypted" \in cmd.flags THEN SM4_ECB_Decrypt(cmd.seen, cmd.key) ELSE cmd.seen
Saved(c) == IF "encrypted" \in cmd.flags THEN SM4_ECB_Encrypt(c, cmd.key) ELSE c

\* Saving cuts off what the file had more when it was read, and keeps the attributes.
editor_save ==
    LET f == cmd.file IN
    /\ cmd.op = "edit" /\ cmd' = Idle /\ openFileRDWR(f)
    /\ \E c \in {<<t>> : t \in DOMAIN Text} \cup {Shown} :
          /\ content' = [content EXCEPT ![f] = IF @ = cmd.seen THEN Saved(c) ELSE Junk]
          /\ plain' = [plain EXCEPT ![f] = c]
    /\ spoiled' = IF Spoils(f, cmd.seen, cmd.flags) THEN spoiled \cup {f} ELSE spoiled
    /\ UNCHANGED <<attr, deny, keys, loader, seals, cmds>>

editor_quit ==
    /\ cmd.op = "edit" /\ cmd' = Idle
    /\ UNCHANGED <<files, loader, history, cmds>>

\* A destination that has bytes is deleted and created anew; an empty one is kept, and its
\* attributes with it.  A source that cannot be opened, the destination itself for one, has the
\* size -1, which its read returns too: nothing is written and the copy is reported done.
process_cp_command(src, dst) ==
    LET fresh == ~Exists(dst) \/ Size(content[dst]) > 0
        fails == src = dst \/ src \in deny \/ Size(content[src]) = 0 IN
    /\ Start(dst, IF fails THEN Idle ELSE [op |-> "cp", file |-> dst, src |-> src,
                                           seen |-> content[src]])
    /\ Exists(src) /\ (Exists(dst) => dst \notin deny)
    /\ content' = [content EXCEPT ![dst] = <<EMPTY>>]
    /\ plain' = [plain EXCEPT ![dst] = <<EMPTY>>]
    /\ attr' = IF fresh THEN [attr EXCEPT ![dst] = {}] ELSE attr
    /\ loader' = IF fresh THEN Detached(dst) ELSE loader
    /\ spoiled' = IF fresh THEN spoiled \ {dst} ELSE spoiled
    /\ deny' = IF fails THEN deny \ {dst} ELSE deny \cup {src, dst}
    /\ UNCHANGED <<keys, seals>>

cp_write ==
    LET dst == cmd.file IN
    /\ cmd.op = "cp" /\ cmd' = Idle
    /\ content' = [content EXCEPT ![dst] = IF @ = <<EMPTY>> THEN cmd.seen ELSE Junk]
    /\ plain' = [plain EXCEPT ![dst] = cmd.seen]
    /\ spoiled' = IF content[dst] # <<EMPTY>> \/ "encrypted" \in attr[dst]
                  THEN spoiled \cup {dst} ELSE spoiled
    /\ deny' = deny \ {dst, cmd.src}
    /\ UNCHANGED <<attr, keys, loader, seals, cmds>>

----------------------------------------------------------------------------
(* The loader of a program.                                                *)

At(l, pc) == loader[l].pc = pc
Goto(l, r) == loader' = [loader EXCEPT ![l] = r]

\* The attributes are read, and the descriptor closed.
process_program(l, f) ==
    /\ At(l, "idle") /\ Exists(f) /\ cmds < MAX_CMDS /\ cmds' = cmds + 1
    /\ Goto(l, [pc |-> IF "hashed" \in attr[f] THEN "verify" ELSE "hash", file |-> f])
    /\ deny' = deny \ {f}
    /\ UNCHANGED <<content, attr, keys, cmd, history>>

\* The stored hash is read.  A file that is too short, or gone, gives -1, which is not refused.
verify_program_hash(l) ==
    LET f == loader[l].file IN
    /\ At(l, "verify")
    /\ Goto(l, IF ~Exists(f) \/ Size(content[f]) <= HASH_SIZE
               THEN [pc |-> "load", file |-> f, verdict |-> "fault", seen |-> content[f]]
               ELSE [pc |-> "sha", file |-> f, first |-> content[f]])
    /\ deny' = deny \ {f}
    /\ UNCHANGED <<content, attr, keys, cmd, history, cmds>>

\* The file is opened again, hashed and closed.
verify_sha(l) ==
    LET f == loader[l].file
        right == Exists(f) /\ StoredHash(loader[l].first) = SHA256(content[f], attr[f]) IN
    /\ At(l, "sha")
    /\ Goto(l, [pc |-> IF right THEN "load" ELSE "refused", file |-> f, verdict |-> "right",
                seen |-> content[f], flags |-> attr[f], first |-> loader[l].first])
    /\ deny' = deny \ {f}
    /\ UNCHANGED <<content, attr, keys, cmd, history, cmds>>

append_sha(l) ==
    LET f == loader[l].file IN
    /\ At(l, "hash")
    /\ Goto(l, [pc |-> "append", file |-> f,
                hash |-> IF Exists(f) THEN SHA256(content[f], attr[f]) ELSE Junk])
    /\ deny' = deny \ {f}
    /\ UNCHANGED <<content, attr, keys, cmd, history, cmds>>

append_open(l) ==
    LET f == loader[l].file IN
    /\ At(l, "append")
    /\ \/ openFileRDWR(f) /\ Goto(l, [loader[l] EXCEPT !.pc = "write"]) /\ deny' = deny \cup {f}
       \/ ~openFileRDWR(f) /\ Goto(l, Resting) /\ UNCHANGED deny
    /\ UNCHANGED <<content, attr, keys, cmd, history, cmds>>

\* The hash is written at the end of the file, and the attributes are read.
append_write(l) ==
    LET f == loader[l].file
        c == Append(content[f], "hash")
        good == loader[l].hash = content[f] IN
    /\ At(l, "write")
    /\ Goto(l, [pc |-> "flag", file |-> f, flags |-> attr[f]])
    /\ content' = [content EXCEPT ![f] = IF good THEN c ELSE Junk]
    /\ plain' = [plain EXCEPT ![f] = c]
    /\ seals' = IF good THEN seals \cup {c} ELSE seals
    /\ spoiled' = IF good /\ "encrypted" \notin attr[f] THEN spoiled ELSE spoiled \cup {f}
    /\ UNCHANGED <<attr, deny, keys, cmd, cmds>>

append_flag(l) ==
    LET f == loader[l].file IN
    /\ At(l, "flag")
    /\ Goto(l, [pc |-> "load", file |-> f, verdict |-> "appended", seen |-> content[f]])
    /\ attr' = [attr EXCEPT ![f] = loader[l].flags \cup {"hashed"}]
    /\ deny' = deny \ {f}
    /\ spoiled' = IF attr[f] # loader[l].flags THEN spoiled \cup {f} ELSE spoiled
    /\ UNCHANGED <<content, keys, cmd, plain, seals, cmds>>

\* execv reads the file once more; a refused loader ends.
sys_execv(l) ==
    /\ At(l, "load") /\ Goto(l, Resting) /\ deny' = deny \ {loader[l].file}
    /\ UNCHANGED <<content, attr, keys, cmd, history, cmds>>

refused(l) ==
    /\ At(l, "refused") /\ Goto(l, Resting)
    /\ UNCHANGED <<files, cmd, history, cmds>>

Command ==
    \/ \E f \in File :
          \/ process_touch_command(f) \/ process_rm_command(f) \/ process_sha_command(f)
          \/ \E k \in Key : \/ process_enc_command(f, k) \/ process_dec_command(f, k)
                            \/ editor_main(f, k)
          \/ \E dst \in File : process_cp_command(f, dst)
    \/ enc_write \/ enc_keys \/ dec_write \/ editor_save \/ editor_quit \/ cp_write

Load(l) ==
    \/ \E f \in File : process_program(l, f)
    \/ verify_program_hash(l) \/ verify_sha(l)
    \/ append_sha(l) \/ append_open(l) \/ append_write(l) \/ append_flag(l)
    \/ sys_execv(l) \/ refused(l)

Next == Command \/ \E l \in Loader : Load(l)

Spec == Init /\ [][Next]_vars

----------------------------------------------------------------------------
(* Properties.                                                             *)

\* Whatever sequence of commands and execs ran on it, a file says what its user last put into it:
\* unencrypted it holds just that, and encrypted it holds that under the key /keys has for its path,
\* so that dec (or edit) with the key of the last enc gives it back.  Excepted are the files spoiled
\* by an update that was lost between a loader and a command, by a hash a loader appended to
\* encrypted bytes, or by an empty text that was decrypted.
Recoverable ==
    \A f \in File :
        Exists(f) /\ f \notin spoiled =>
            CASE "encrypted" \notin attr[f] -> content[f] = plain[f]
              [] "encrypted" \in attr[f] ->
                    \E k \in Key : /\ content[f] = Append(plain[f], k)
                                   /\ \/ HasKey(f, k)
                                      \/ cmd.op = "keys" /\ cmd.file = f /\ cmd.key = k

\* What exec makes of a hashed file: it runs, as verified, only bytes a loader appended the hash of,
\* with that hash (or, copied over the file between the two reads of the check, without it); it
\* refuses no such bytes, unless the file changed since the loader saw that it is hashed; and it runs
\* unchecked only a file that has no room for a hash and a byte before it.
HashTells ==
    \A l \in Loader :
        /\ At(l, "load") /\ loader[l].verdict = "right" =>
              {loader[l].seen, Append(loader[l].seen, "hash")} \cap seals # {}
        /\ At(l, "load") /\ loader[l].verdict = "fault" => Size(loader[l].seen) <= HASH_SIZE
        /\ At(l, "refused") /\ loader[l].seen = loader[l].first /\ "hashed" \in loader[l].flags =>
              loader[l].seen \notin seals
=============================================================================
