------------------------------ MODULE Geodata ------------------------------
(***************************************************************************)
(* The geodata files (src/internal/app/geodata.go).  A configuration names *)
(* the files it needs, each with a URL and perhaps a checksum; before the  *)
(* configuration is applied they are brought into the asset directory one  *)
(* after the other, each through a temporary file that is renamed.  What a *)
(* URL answers is up to its server, so any content may arrive; a content   *)
(* is identified with its checksum.  Temporary files are left out: nothing *)
(* reads them.                                                             *)
(***************************************************************************)
EXTENDS Integers, SequencesExt

CONSTANTS
  File,     \* the names of geodata files
  Content,  \* the contents a file may have
  None

\* An asset is [file, sum, valid]: its checksum or None, and whether name, URL
\* and checksum have a form syncRuntimeGeodataAsset accepts.
Asset == [file : File, sum : Content \cup {None}, valid : BOOLEAN]

VARIABLES
  assets,   \* the files of the asset directory, None when missing
  todo,     \* the assets still to be synchronised, None when no pull is under way
  touched   \* history: files replaced by a pull that did not apply its version

geodata == <<assets, todo, touched>>

GeodataInit ==
  /\ assets = [f \in File |-> None]
  /\ todo = None
  /\ touched = {}

-----------------------------------------------------------------------------
\* Mutant: any file that is there is taken for the right one.
MatchesAnything(asset) == asset.sum # None /\ assets[asset.file] # None

\* fileSHA256Matches, asked only for an asset with a checksum.
Matches(asset) == asset.sum # None /\ assets[asset.file] = asset.sum

\* Mutant: the checksum of what was downloaded is not compared.
AcceptsAnything(asset, content) == asset.sum \in Content \cup {None}

\* writeDownloadedGeodataAsset: a download of the wrong checksum is discarded.
Accepts(asset, content) == asset.sum \in {None, content}

\* The next asset is there already, or is downloaded and replaces the old file.
SyncAsset ==
  /\ todo \notin {None, <<>>}
  /\ LET asset == Head(todo) IN
       /\ asset.valid
       /\ \/ Matches(asset) /\ UNCHANGED <<assets, touched>>
          \/ /\ ~Matches(asset)
             /\ \E content \in Content :
                  /\ Accepts(asset, content)
                  /\ assets' = [assets EXCEPT ![asset.file] = content]
             /\ touched' = touched \cup {asset.file}
  /\ todo' = Tail(todo)

\* An asset of a wrong form, a file that cannot be read, a download that fails,
\* is too large or has the wrong checksum: the version is rejected.  The files
\* replaced before stay as they are.
SyncFails ==
  /\ todo \notin {None, <<>>}
  /\ todo' = None
  /\ UNCHANGED <<assets, touched>>

-----------------------------------------------------------------------------
\* The shape of the state.
GeodataTypeOK ==
  /\ assets \in [File -> Content \cup {None}]
  /\ todo = None \/ \A asset \in ToSet(todo) : asset \in Asset
  /\ touched \subseteq File

=============================================================================
