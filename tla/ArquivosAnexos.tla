--------------------------- MODULE ArquivosAnexos ---------------------------
(***************************************************************************)
(* Files kept in the object storage and the attachments that name them     *)
(* (mod_arquivos): the photo of a person, the logotype of a tenant, the    *)
(* evidence photo of a field execution, and the text a worker extracts     *)
(* from an attachment (jobs/files.py).                                     *)
(*                                                                         *)
(* The storage and the database share no transaction. An upload stores the *)
(* object first and inserts the rows after; an exception makes it delete   *)
(* the object again. A file has the identity of the upload that brought    *)
(* it. The storage provider, the file's name, size and signature, and the  *)
(* permissions are left out: an upload here is one that passed them.       *)
(***************************************************************************)
EXTENDS Naturals, FiniteSets

CONSTANTS
    Envios,       \* uploads, each one a file
    Donos,        \* the entities that hold attachments
    Origem,       \* Donos -> {"pessoa", "tenant", "execucao"}
    Remocoes,     \* removal requests
    Extracoes,    \* deliveries of jobs.arquivos.extract
    SemArquivo    \* the null pointer

Origens == {"pessoa", "tenant", "execucao"}

ASSUME ArquivosAssumption ==
    /\ Origem \in [Donos -> Origens]
    /\ SemArquivo \notin Envios

VARIABLES
    objetos,    \* SUBSET Envios: objects in the storage
    anexos,     \* [Envios -> {"sem", "vivo", "removido"}]: committed rows
    retrato,    \* [Donos -> Envios \cup {SemArquivo}]: pessoa.foto_arquivo_id, logo_url
    textos,     \* [Envios -> SUBSET Extracoes]: rows of documento_extraido
    despachados,\* SUBSET Envios: extraction messages the broker accepted
    envio,      \* the state of every upload
    remocao,    \* the state of every removal
    extracao,   \* the state of every delivery
    juntos,     \* [Donos -> {"nao", "sim"}]: history, two uploads to the owner overlapped,
                \* or one of them was not to take the place of the others
    incerto     \* SUBSET Envios: history, uploads whose commit lost its answer

arqVars == <<objetos, anexos, retrato, textos, despachados, envio, remocao,
             extracao, juntos, incerto>>

EnvioNovo    == [pc |-> "novo", dono |-> SemArquivo, unico |-> "sim", lista |-> {}]
RemocaoNova  == [pc |-> "nova", anexo |-> SemArquivo]
ExtracaoNova == [pc |-> "nova", anexo |-> SemArquivo, apagados |-> {}]

InitArquivos ==
    /\ objetos = {} /\ incerto = {} /\ despachados = {}
    /\ anexos = [e \in Envios |-> "sem"]
    /\ retrato = [d \in Donos |-> SemArquivo]
    /\ textos = [e \in Envios |-> {}]
    /\ envio = [e \in Envios |-> EnvioNovo]
    /\ remocao = [r \in Remocoes |-> RemocaoNova]
    /\ extracao = [x \in Extracoes |-> ExtracaoNova]
    /\ juntos = [d \in Donos |-> "nao"]

DonoDe(e) == envio[e].dono
EmCurso(e) == envio[e].pc \in {"guardado", "listado", "gravado"}

\* commit=False: the photo that comes with the execution itself.
SemCommit(e) == Origem[DonoDe(e)] = "execucao" /\ envio[e].unico = "sim"

\* list_attachments: the live attachments of the owner
Vivos(d) == {e \in Envios : anexos[e] = "vivo" /\ DonoDe(e) = d}

-----------------------------------------------------------------------------
(* Upload *)

\* The entity, the type and the file were validated; storage.save returned. An
\* upload with photo_only ("unico") takes the place of the others; one that
\* comes through the list of attachments, or as a later evidence, does not.
Guardar(e, d, unico) ==
    /\ envio[e].pc = "novo"
    /\ envio' = [envio EXCEPT ![e] = [pc |-> "guardado", dono |-> d, unico |-> unico,
                                      lista |-> {}]]
    /\ objetos' = objetos \cup {e}
    /\ juntos' = IF unico = "nao" \/ \E f \in Envios : EmCurso(f) /\ DonoDe(f) = d
                 THEN [juntos EXCEPT ![d] = "sim"] ELSE juntos
    /\ UNCHANGED <<anexos, retrato, textos, despachados, remocao, extracao, incerto>>

\* photo_only: the previous photos are listed, to be removed in the transaction.
Listar(e) ==
    /\ envio[e].pc = "guardado"
    /\ envio' = [envio EXCEPT ![e].pc = "listado",
           ![e].lista = IF envio[e].unico = "sim" THEN Vivos(DonoDe(e)) ELSE {}]
    /\ UNCHANGED <<objetos, anexos, retrato, textos, despachados, remocao,
                   extracao, juntos, incerto>>

\* deactivate_attachment on a set of attachments of one owner: each row still
\* live is removed, and the pointer of a person is cleared when it names it.
AnexosSem(S) == [a \in Envios |-> IF a \in S /\ anexos[a] = "vivo" THEN "removido"
                                  ELSE anexos[a]]
\* Mutant. The photo is removed and the person still points at it.
RetratoSemLimpar(S, d) == retrato[d]

RetratoSem(S, d) ==
    IF Origem[d] = "pessoa" /\ retrato[d] \in {a \in S : anexos[a] = "vivo"}
    THEN SemArquivo ELSE retrato[d]

\* create_attachment: only the photo of a person is also written on its owner.
RetratoCom(e) == IF Origem[DonoDe(e)] = "pessoa" THEN e
                 ELSE RetratoSem(envio[e].lista, DonoDe(e))

\* What the transaction of an upload leaves.
Efetivar(e) ==
    /\ anexos' = [AnexosSem(envio[e].lista) EXCEPT ![e] = "vivo"]
    /\ retrato' = [retrato EXCEPT ![DonoDe(e)] = RetratoCom(e)]

Confirmar(e) ==
    /\ envio[e].pc = "listado"
    /\ ~SemCommit(e)
    /\ Efetivar(e)
    /\ envio' = [envio EXCEPT ![e].pc = "gravado"]
    /\ UNCHANGED <<objetos, textos, despachados, remocao, extracao, juntos, incerto>>

\* What the except clause of upload deletes, when storage.delete succeeds.
ObjetosSem(e) == objetos \ {e}

\* Any statement fails: the session rolls back, the object is deleted, or is
\* left behind when storage.delete fails too.
Desfazer(e) ==
    /\ envio[e].pc \in {"guardado", "listado"}
    /\ objetos' \in {objetos, ObjetosSem(e)}
    /\ envio' = [envio EXCEPT ![e].pc = "falhou"]
    /\ UNCHANGED <<anexos, retrato, textos, despachados, remocao, extracao,
                   juntos, incerto>>

\* The commit takes effect and its answer is lost: upload takes it for a
\* failure and deletes the object of a row that exists.
ConfirmarSemResposta(e) ==
    /\ envio[e].pc = "listado"
    /\ ~SemCommit(e)
    /\ Efetivar(e)
    /\ objetos' = ObjetosSem(e)
    /\ incerto' = incerto \cup {e}
    /\ envio' = [envio EXCEPT ![e].pc = "falhou"]
    /\ UNCHANGED <<textos, despachados, remocao, extracao, juntos>>

\* Of the photo of a field execution, upload has only flushed the rows: the
\* caller commits the execution with them, or fails and leaves the object.
\* Nothing dispatches the extraction of its text.
ConfirmarExecucao(e) ==
    /\ envio[e].pc = "listado"
    /\ SemCommit(e)
    /\ Efetivar(e)
    /\ envio' = [envio EXCEPT ![e].pc = "feito"]
    /\ UNCHANGED <<objetos, textos, despachados, remocao, extracao, juntos, incerto>>

\* _dispatch_extraction after the commit: a broker that refuses is logged.
Despachar(e) ==
    /\ envio[e].pc = "gravado"
    /\ despachados' \in {despachados, despachados \cup {e}}
    /\ envio' = [envio EXCEPT ![e].pc =
           IF Origem[DonoDe(e)] = "tenant" /\ envio[e].unico = "sim" THEN "logo" ELSE "feito"]
    /\ UNCHANGED <<objetos, anexos, retrato, textos, remocao, extracao, juntos, incerto>>

\* upload_current_tenant_logo: a second transaction writes logo_url.
AtualizarLogo(e) ==
    /\ envio[e].pc = "logo"
    /\ retrato' = [retrato EXCEPT ![DonoDe(e)] = e]
    /\ envio' = [envio EXCEPT ![e].pc = "feito"]
    /\ UNCHANGED <<objetos, anexos, textos, despachados, remocao, extracao,
                   juntos, incerto>>

\* The process dies: what was not committed is rolled back, the object stays.
Morrer(e) ==
    /\ envio[e].pc \in {"guardado", "listado", "gravado", "logo"}
    /\ envio' = [envio EXCEPT ![e].pc = "falhou"]
    /\ UNCHANGED <<objetos, anexos, retrato, textos, despachados, remocao,
                   extracao, juntos, incerto>>

-----------------------------------------------------------------------------
(* Removal: remove_photo picks a live photo, remove takes any attachment *)

EscolherRemocao(r, e) ==
    /\ remocao[r].pc = "nova"
    /\ anexos[e] = "vivo"
    /\ remocao' = [remocao EXCEPT ![r] = [pc |-> "lido", anexo |-> e]]
    /\ UNCHANGED <<objetos, anexos, retrato, textos, despachados, envio,
                   extracao, juntos, incerto>>

\* The object stays in the storage. Already removed: ResourceNotFoundError.
Remover(r) ==
    LET e == remocao[r].anexo IN
    /\ remocao[r].pc = "lido"
    /\ anexos' = AnexosSem({e})
    /\ retrato' = [retrato EXCEPT ![DonoDe(e)] = RetratoSem({e}, DonoDe(e))]
    /\ remocao' = [remocao EXCEPT ![r].pc = "feita"]
    /\ UNCHANGED <<objetos, textos, despachados, envio, extracao, juntos, incerto>>

-----------------------------------------------------------------------------
(* Extraction of the text: acks_late, so that a message may be delivered   *)
(* again while its first delivery still runs.                              *)

\* The attachment is read and its object fetched, or the task fails
\* (LookupError, storage_object_not_found).
Extrair(x, e) ==
    /\ extracao[x].pc = "nova"
    /\ e \in despachados
    /\ extracao' = [extracao EXCEPT
          ![x] = [pc |-> IF anexos[e] = "vivo" /\ e \in objetos THEN "lido" ELSE "falhou",
                  anexo |-> e, apagados |-> {}]]
    /\ UNCHANGED <<objetos, anexos, retrato, textos, despachados, envio, remocao,
                   juntos, incerto>>

\* DELETE of the rows committed so far; no constraint keeps a second one out.
ApagarTextos(x) ==
    /\ extracao[x].pc = "lido"
    /\ extracao' = [extracao EXCEPT ![x].pc = "apagou",
                                    ![x].apagados = textos[extracao[x].anexo]]
    /\ UNCHANGED <<objetos, anexos, retrato, textos, despachados, envio, remocao,
                   juntos, incerto>>

GravarTexto(x) ==
    /\ extracao[x].pc = "apagou"
    /\ textos' = [textos EXCEPT ![extracao[x].anexo] = (@ \ extracao[x].apagados) \cup {x}]
    /\ extracao' = [extracao EXCEPT ![x].pc = "feita"]
    /\ UNCHANGED <<objetos, anexos, retrato, despachados, envio, remocao, juntos, incerto>>

-----------------------------------------------------------------------------
NextArquivos ==
    \/ \E e \in Envios :
          \/ \E d \in Donos, unico \in {"sim", "nao"} : Guardar(e, d, unico)
          \/ Listar(e) \/ Confirmar(e) \/ Desfazer(e) \/ ConfirmarSemResposta(e)
          \/ ConfirmarExecucao(e) \/ Despachar(e) \/ AtualizarLogo(e) \/ Morrer(e)
    \/ \E r \in Remocoes : Remover(r) \/ \E e \in Envios : EscolherRemocao(r, e)
    \/ \E x \in Extracoes :
          ApagarTextos(x) \/ GravarTexto(x) \/ \E e \in Envios : Extrair(x, e)

SpecArquivos == InitArquivos /\ [][NextArquivos]_arqVars

-----------------------------------------------------------------------------
(* Properties *)

ComFoto == {d \in Donos : Origem[d] = "pessoa"}

\* pessoa.foto_arquivo_id names a live photo of that person, whatever
\* uploads and removals overlapped.
RetratoVivo == \A d \in ComFoto : retrato[d] # SemArquivo => retrato[d] \in Vivos(d)

\* Uploads of photos that never overlapped, each to take the place of the ones
\* before, leave one live photo, the one shown.
UmaFotoPorVez ==
    \A d \in ComFoto :
        juntos[d] = "nao" =>
            /\ Cardinality(Vivos(d)) <= 1
            /\ Vivos(d) # {} => retrato[d] \in Vivos(d)

\* The object of a committed attachment is in the storage, unless the answer
\* to its commit was lost.
ObjetoGuardado ==
    \A e \in Envios : anexos[e] # "sem" /\ e \notin incerto => e \in objetos

\* Only a file that was dispatched gets a text, and a second text needs a
\* second delivery that deleted before the first one committed.
TextoDoDespachado ==
    \A e \in Envios :
        /\ textos[e] # {} => e \in despachados /\ anexos[e] # "sem"
        /\ \A x, y \in textos[e] :
               x # y => x \notin extracao[y].apagados /\ y \notin extracao[x].apagados

\* ARQUIVOS. What an attachment, its object, the photo its owner shows and the
\* text extracted from it say of each other.
ArquivoConfere ==
    /\ RetratoVivo
    /\ UmaFotoPorVez
    /\ ObjetoGuardado
    /\ TextoDoDespachado

=============================================================================
