------------------------------ MODULE StoredFiles ------------------------------
(* The two features that keep files in object storage: a lead's documents    *)
(* (apps/api/src/attachments) and the resources of the tool library          *)
(* (apps/api/src/tools).  The bucket and the tables share no transaction:    *)
(* each put, get, remove and each transaction of the database is a step, and *)
(* a request can stop after any of them.  A content is the number of its     *)
(* upload; of a row's file columns the model keeps whose upload they state.  *)
EXTENDS Naturals, FiniteSets, Sequences

CONSTANTS Worker, Name, MaxUpload, MaxRow,
          Prefix   \* the prefix of a lead's documents, none of the names

ASSUME StoredAssumption == MaxUpload \in Nat /\ MaxRow \in Nat \ {0} /\ Prefix \notin Name

VARIABLES objects,      \* the bucket: keys to contents
          resource,     \* a row of resources, or Absent
          visible,      \* whether resource_visibility names the reader's role
          documents,    \* the rows of attachments of one lead
          doing,        \* what each request is doing
          uploads,      \* how many files have been sent
          overlapped    \* history: two writers of the resource at one time

stored == <<objects, resource, visible, documents, doing, uploads, overlapped>>

Upload == 1 .. MaxUpload
Key == Nat \X (Name \cup {Prefix})
NoKey == <<0, Prefix>>
DocumentKey(u) == <<u, Prefix>>
ResourceRow == [type : {"link", "file"}, key : Key, file : {0} \cup Upload, version : 1 .. MaxRow, active : BOOLEAN]
Document == [file : Upload, active : BOOLEAN]
Absent == [type |-> "none", key |-> NoKey, file |-> 0, version |-> 0, active |-> FALSE]
Rest == [at |-> "rest"]

(* resourceObjectKey and objectKey: a version of the resource, or an         *)
(* identifier of the document's own.                                         *)
UnversionedKey(version, name) == <<0, name>>
ResourceKey(version, name) == <<version, name>>

StoredTypeOK ==
  /\ DOMAIN objects \subseteq Key \ {NoKey} /\ \A k \in DOMAIN objects : objects[k] \in Upload
  /\ resource \in ResourceRow \cup {Absent} /\ visible \in BOOLEAN
  /\ documents \in Seq(Document) /\ Len(documents) <= MaxRow
  /\ \A w \in Worker :
       doing[w].at \in {"rest", "put", "insert", "write", "remove", "attach", "insertDocument", "deactivate",
                        "find", "get", "served"}
  /\ uploads \in 0 .. MaxUpload /\ overlapped \in BOOLEAN

StoredInit ==
  /\ objects = <<>> /\ resource = Absent /\ visible = TRUE /\ documents = <<>>
  /\ doing = [w \in Worker |-> Rest] /\ uploads = 0 /\ overlapped = FALSE

Does(w, d) == doing' = [doing EXCEPT ![w] = d]
Put(k, u) == objects' = [x \in DOMAIN objects \cup {k} |-> IF x = k THEN u ELSE objects[x]]
Remove(k) == objects' = [x \in DOMAIN objects \ {k} |-> objects[x]]
Writing(w) == doing[w].at \in {"put", "insert", "write", "remove"}
Alone(w) == overlapped' = (overlapped \/ \E v \in Worker \ {w} : Writing(v))

-----------------------------------------------------------------------------
(* ResourceService.create: a link is inserted at once, a file is put first.  *)
CreateLink(w) ==
  /\ doing[w] = Rest /\ resource = Absent
  /\ resource' = [type |-> "link", key |-> NoKey, file |-> 0, version |-> 1, active |-> TRUE]
  /\ Alone(w) /\ UNCHANGED <<objects, visible, documents, doing, uploads>>

(* One resource: its identifier is drawn per request, so the model starts    *)
(* one creation at a time.                                                   *)
BeginCreate(w, n) ==
  /\ doing[w] = Rest /\ resource = Absent /\ uploads < MaxUpload
  /\ \A v \in Worker : ~Writing(v)
  /\ uploads' = uploads + 1
  /\ Does(w, [at |-> "put", old |-> Absent, version |-> 1, key |-> ResourceKey(1, n), file |-> uploads + 1])
  /\ Alone(w) /\ UNCHANGED <<objects, resource, visible, documents>>

(* ResourceService.update reads the row without a lock.  A file is put under *)
(* the version after the one read; a link or an edit of the texts alone is   *)
(* written at once.                                                          *)
BeginReplace(w, n) ==
  /\ doing[w] = Rest /\ resource # Absent /\ uploads < MaxUpload /\ resource.version < MaxRow
  /\ uploads' = uploads + 1
  /\ Does(w, [at |-> "put", old |-> resource, version |-> resource.version + 1,
              key |-> ResourceKey(resource.version + 1, n), file |-> uploads + 1])
  /\ Alone(w) /\ UNCHANGED <<objects, resource, visible, documents>>

BeginEdit(w, type) ==
  /\ doing[w] = Rest /\ resource # Absent /\ (type = "file" => resource.type = "file")
  /\ Does(w, [at |-> "write", old |-> resource, version |-> 0, key |-> NoKey, file |-> 0, type |-> type])
  /\ Alone(w) /\ UNCHANGED <<objects, resource, visible, documents, uploads>>

PutFile(w) ==
  /\ doing[w].at = "put" /\ Put(doing[w].key, doing[w].file)
  /\ Does(w, [at |-> IF doing[w].old = Absent THEN "insert" ELSE "write", old |-> doing[w].old,
              version |-> doing[w].version, key |-> doing[w].key, file |-> doing[w].file, type |-> "file"])
  /\ UNCHANGED <<resource, visible, documents, uploads, overlapped>>

Insert(w) ==
  /\ doing[w].at = "insert" /\ Does(w, Rest)
  /\ resource' = [type |-> "file", key |-> doing[w].key, file |-> doing[w].file, version |-> 1, active |-> TRUE]
  /\ UNCHANGED <<objects, visible, documents, uploads, overlapped>>

(* The columns the request names are overwritten under a lock, the others    *)
(* stay: an edit of the texts keeps the key that is there now.               *)
Written(d) ==
  IF d.type = "link" THEN [resource EXCEPT !.type = "link", !.key = NoKey, !.file = 0]
  ELSE IF d.file = 0 THEN [resource EXCEPT !.type = "file"]
  ELSE [resource EXCEPT !.type = "file", !.key = d.key, !.file = d.file, !.version = d.version]

Superseded(old) == old.key \notin {NoKey, resource'.key}

WriteRow(w) ==
  LET d == doing[w] IN
  /\ d.at = "write" /\ resource' = Written(d)
  /\ Does(w, IF Superseded(d.old) THEN [at |-> "remove", key |-> d.old.key] ELSE Rest)
  /\ UNCHANGED <<objects, visible, documents, uploads, overlapped>>

DeactivateResource == resource.active /\ resource' = [resource EXCEPT !.active = FALSE]
                      /\ UNCHANGED <<objects, visible, documents, doing, uploads, overlapped>>
ReplaceVisibility == resource # Absent /\ visible' = ~visible
                     /\ UNCHANGED <<objects, resource, documents, doing, uploads, overlapped>>

-----------------------------------------------------------------------------
(* AttachmentService.upload and remove.                                      *)
BeginAttach(w) ==
  /\ doing[w] = Rest /\ uploads < MaxUpload /\ Len(documents) < MaxRow
  /\ uploads' = uploads + 1 /\ Does(w, [at |-> "attach", file |-> uploads + 1])
  /\ UNCHANGED <<objects, resource, visible, documents, overlapped>>

PutDocument(w) ==
  /\ doing[w].at = "attach" /\ Put(DocumentKey(doing[w].file), doing[w].file)
  /\ Does(w, [doing[w] EXCEPT !.at = "insertDocument"])
  /\ UNCHANGED <<resource, visible, documents, uploads, overlapped>>

InsertDocument(w) ==
  /\ doing[w].at = "insertDocument" /\ Len(documents) < MaxRow /\ Does(w, Rest)
  /\ documents' = Append(documents, [file |-> doing[w].file, active |-> TRUE])
  /\ UNCHANGED <<objects, resource, visible, uploads, overlapped>>

BeginRemove(w, i) ==
  /\ doing[w] = Rest /\ documents[i].active /\ Does(w, [at |-> "deactivate", document |-> i])
  /\ UNCHANGED <<objects, resource, visible, documents, uploads, overlapped>>

DeactivateDocument(w) ==
  LET i == doing[w].document IN
  /\ doing[w].at = "deactivate" /\ documents' = [documents EXCEPT ![i].active = FALSE]
  /\ Does(w, [at |-> "remove", key |-> DocumentKey(documents[i].file)])
  /\ UNCHANGED <<objects, resource, visible, uploads, overlapped>>

RemoveObject(w) ==
  /\ doing[w].at = "remove" /\ Remove(doing[w].key) /\ Does(w, Rest)
  /\ UNCHANGED <<resource, visible, documents, uploads, overlapped>>

-----------------------------------------------------------------------------
(* authorizeDownloadRoute reads the row, then the visibility; the object is  *)
(* fetched by the key of the row that was read.                              *)
FindResource(w) ==
  /\ doing[w] = Rest /\ resource.active /\ resource.type = "file" /\ resource.key # NoKey
  /\ Does(w, [at |-> "find", key |-> resource.key, file |-> resource.file])
  /\ UNCHANGED <<objects, resource, visible, documents, uploads, overlapped>>

Authorize(w) ==
  /\ doing[w].at = "find" /\ Does(w, IF visible THEN [doing[w] EXCEPT !.at = "get"] ELSE Rest)
  /\ UNCHANGED <<objects, resource, visible, documents, uploads, overlapped>>

FindDocument(w, i) ==
  /\ doing[w] = Rest /\ documents[i].active
  /\ Does(w, [at |-> "get", key |-> DocumentKey(documents[i].file), file |-> documents[i].file])
  /\ UNCHANGED <<objects, resource, visible, documents, uploads, overlapped>>

Get(w) ==
  LET d == doing[w] IN
  /\ d.at = "get"
  /\ Does(w, IF d.key \in DOMAIN objects THEN [at |-> "served", file |-> d.file, content |-> objects[d.key]] ELSE Rest)
  /\ UNCHANGED <<objects, resource, visible, documents, uploads, overlapped>>

(* Answered, failed or interrupted: what was done stays.                     *)
End(w) ==
  /\ doing[w] # Rest /\ Does(w, Rest)
  /\ UNCHANGED <<objects, resource, visible, documents, uploads, overlapped>>

StoredNext ==
  \/ DeactivateResource \/ ReplaceVisibility
  \/ \E w \in Worker :
       \/ CreateLink(w) \/ PutFile(w) \/ Insert(w) \/ WriteRow(w) \/ RemoveObject(w)
       \/ \E n \in Name : BeginCreate(w, n) \/ BeginReplace(w, n)
       \/ \E type \in {"link", "file"} : BeginEdit(w, type)
       \/ BeginAttach(w) \/ PutDocument(w) \/ InsertDocument(w) \/ DeactivateDocument(w)
       \/ \E i \in DOMAIN documents : BeginRemove(w, i) \/ FindDocument(w, i)
       \/ FindResource(w) \/ Authorize(w) \/ Get(w) \/ End(w)

StoredSpec == StoredInit /\ [][StoredNext]_stored

-----------------------------------------------------------------------------
Holds(k, u) == k \in DOMAIN objects /\ objects[k] = u

(* A document that is listed can be fetched, wherever an upload or a removal *)
(* stops and however many run: the object is put before the row and removed  *)
(* after it (attachments/service.ts, upload and remove).                     *)
DocumentsAreStored ==
  \A i \in DOMAIN documents : documents[i].active => Holds(DocumentKey(documents[i].file), documents[i].file)

(* As long as no two edits of a resource overlap, its row names an object    *)
(* that is there and is the file the row describes, wherever an edit stops   *)
(* (tools/service.ts, create and update).                                    *)
SerialEditsKeepTheFile ==
  ~overlapped /\ resource.type = "file" => Holds(resource.key, resource.file)

(* ... and a download gets the file of the row it began with, or nothing:    *)
(* the version in the key keeps it from the upload that replaces it.         *)
SerialDownloadsMatch ==
  ~overlapped => \A w \in Worker : doing[w].at = "served" => doing[w].content = doing[w].file

(* The row of a document or resource is never ahead of its object: what is   *)
(* listed can be downloaded, and a download is the file its row described.   *)
FilesAreStored == StoredTypeOK /\ DocumentsAreStored /\ SerialEditsKeepTheFile /\ SerialDownloadsMatch

(* The same without the restriction, as tools/service.ts:105-108 has it: "a  *)
(* same-named re-upload can never collide".  Two edits that read the same    *)
(* version put their files under one key.                                    *)
DownloadsMatch == \A w \in Worker : doing[w].at = "served" => doing[w].content = doing[w].file

(* ... and a resource of type file has its object: the row an edit leaves    *)
(* can name what the edit before it is about to remove.                      *)
ResourcesAreStored == resource.type = "file" => resource.key \in DOMAIN objects
=============================================================================
