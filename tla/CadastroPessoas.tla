-------------------------- MODULE CadastroPessoas --------------------------
(***************************************************************************)
(* Registration of people and what hangs from it (mod_cadastro): a person  *)
(* with the strong identities (CPF, voter title), the tag of those who came*)
(* through the site, the pending validation of those without a leader, the *)
(* types of a person and the members of a family nucleus. A person has the *)
(* identity of the request that registers it. Contacts, addresses and the  *)
(* polling place are in PessoaTerritorio, the hierarchy in                 *)
(* HierarquiaLiderancas, the merge in MesclaPessoas.                       *)
(***************************************************************************)
EXTENDS Naturals, FiniteSets

CONSTANTS
    Registros,     \* registrations, each one a person
    Identidades,   \* values of CPF and of voter title
    TiposPessoa,   \* pessoa_tipo
    Familias,      \* requests on the nucleus
    Trocas,        \* requests that replace the types of the person
    Nenhuma        \* no identity

ASSUME CadastroAssumption == Nenhuma \notin Identidades
ASSUME TagSemDono == {"nao", "sim"} \cap Registros = {}

VARIABLES
    registro,     \* the state of every registration
    identidade,   \* [Registros -> the identity the person holds, or Nenhuma]
    ficha,        \* [Registros -> {"sem", "viva", "excluida"}]
    tagSite,      \* the tag 'origem-site': "nao", "sim" or the request inserting it
    comTagSite,   \* SUBSET Registros: people that carry it
    semLider,     \* SUBSET Registros: people with a pending validation sem_lider
    renomeada,    \* {"nao", "sim"}: history, the tag was renamed at some time
    membros,      \* SUBSET Registros: people of the nucleus
    quantidade,   \* nucleo_familiar.quantidade_membros
    familia,      \* the state of every request on the nucleus
    famCruzada,   \* {"nao", "sim"}: history, two of them overlapped
    tiposP,       \* the types of the person
    troca,        \* the state of every replacement
    trocaCruzada  \* {"nao", "sim"}: history, two of them overlapped

varsRegistro == <<registro, identidade, ficha, tagSite, comTagSite, semLider, renomeada>>
varsFamilia  == <<membros, quantidade, familia, famCruzada>>
varsTroca    == <<tiposP, troca, trocaCruzada>>
varsCadastro == <<varsRegistro, varsFamilia, varsTroca>>

RegistroNovo == [pc |-> "novo", origem |-> "painel", id |-> Nenhuma, lider |-> "sim"]
FamiliaNova  == [pc |-> "nova", op |-> "incluir", pessoa |-> Nenhuma, lida |-> 0, nova |-> 0]
TrocaNova    == [pc |-> "nova", tipos |-> {}, apagados |-> {}]

InitCadastro ==
    /\ registro = [r \in Registros |-> RegistroNovo]
    /\ identidade = [r \in Registros |-> Nenhuma]
    /\ ficha = [r \in Registros |-> "sem"]
    /\ tagSite = "nao" /\ comTagSite = {} /\ semLider = {} /\ renomeada = "nao"
    /\ membros = {} /\ quantidade = 0 /\ famCruzada = "nao"
    /\ familia = [f \in Familias |-> FamiliaNova]
    /\ tiposP = {} /\ trocaCruzada = "nao"
    /\ troca = [t \in Trocas |-> TrocaNova]

-----------------------------------------------------------------------------
(* Registration *)

\* strong_duplicate: the documents of deleted people count.
DonoDa(i) == {r \in Registros : i # Nenhuma /\ identidade[r] = i}

\* create_person up to its checks: a duplicate seen here is refused.
Registrar(r, origem, i, lider) ==
    /\ registro[r].pc = "novo"
    /\ registro' = [registro EXCEPT ![r] =
          [pc |-> IF DonoDa(i) # {} THEN "recusado"
                  ELSE IF origem = "site" THEN "semTag" ELSE "pronto",
           origem |-> origem, id |-> i, lider |-> lider]]
    /\ UNCHANGED <<identidade, ficha, tagSite, comTagSite, semLider, renomeada>>

\* get_or_create_tag_by_name: the tag is looked for first.
ProcurarTag(r) ==
    /\ registro[r].pc = "semTag"
    /\ registro' = [registro EXCEPT ![r].pc = IF tagSite = "sim" THEN "pronto" ELSE "criaTag"]
    /\ UNCHANGED <<identidade, ficha, tagSite, comTagSite, semLider, renomeada>>

\* Mutant. An insertion that loses the race fails the registration.
DepoisDoConflitoFalha == "falhouTag"

\* The savepoint is undone and the tag read again: it is there.
DepoisDoConflito == "releTag"

\* The insertion waits while another transaction inserts the same name.
InserirTag(r) ==
    /\ registro[r].pc = "criaTag"
    /\ tagSite \in {"nao", "sim"}
    /\ IF tagSite = "nao"
       THEN /\ tagSite' = r
            /\ registro' = [registro EXCEPT ![r].pc = "pronto"]
       ELSE /\ registro' = [registro EXCEPT ![r].pc = DepoisDoConflito]
            /\ UNCHANGED tagSite
    /\ UNCHANGED <<identidade, ficha, comTagSite, semLider, renomeada>>

\* Renamed in between, the tag is not found and the registration fails.
RelerTag(r) ==
    /\ registro[r].pc = "releTag"
    /\ registro' = [registro EXCEPT ![r].pc = IF tagSite = "sim" THEN "pronto" ELSE "falhouTag"]
    /\ UNCHANGED <<identidade, ficha, tagSite, comTagSite, semLider, renomeada>>

TagDepois(r, valor) == IF tagSite = r THEN valor ELSE tagSite

\* The rows and the commit: a unique constraint refuses an identity committed
\* since the check, and the whole registration with it.
ConfirmarCadastro(r) ==
    LET i == registro[r].id IN
    /\ registro[r].pc = "pronto"
    /\ UNCHANGED renomeada
    /\ IF DonoDa(i) = {}
       THEN /\ identidade' = [identidade EXCEPT ![r] = i]
            /\ ficha' = [ficha EXCEPT ![r] = "viva"]
            /\ comTagSite' = IF registro[r].origem = "site" THEN comTagSite \cup {r}
                             ELSE comTagSite
            /\ semLider' = IF registro[r].lider = "nao" THEN semLider \cup {r} ELSE semLider
            /\ tagSite' = TagDepois(r, "sim")
            /\ registro' = [registro EXCEPT ![r].pc = "feito"]
       ELSE /\ tagSite' = TagDepois(r, "nao")
            /\ registro' = [registro EXCEPT ![r].pc = "recusado"]
            /\ UNCHANGED <<identidade, ficha, comTagSite, semLider>>

\* add_document, update_document and set_voter on a registered person: the
\* first and the last check for a duplicate, and all meet the same constraint.
TrocarIdentidade(r, i) ==
    /\ ficha[r] = "viva"
    /\ DonoDa(i) \subseteq {r}
    /\ identidade' = [identidade EXCEPT ![r] = i]
    /\ UNCHANGED <<registro, ficha, tagSite, comTagSite, semLider, renomeada>>

\* deactivate_person: nothing but the person's own row changes.
Excluir(r) ==
    /\ ficha[r] = "viva"
    /\ ficha' = [ficha EXCEPT ![r] = "excluida"]
    /\ UNCHANGED <<registro, identidade, tagSite, comTagSite, semLider, renomeada>>

ResolverValidacao(r) ==
    /\ r \in semLider
    /\ semLider' = semLider \ {r}
    /\ UNCHANGED <<registro, identidade, ficha, tagSite, comTagSite, renomeada>>

\* create_tag with the same name, and update_tag that gives it another.
CriarTagSite ==
    /\ tagSite = "nao"
    /\ tagSite' = "sim"
    /\ UNCHANGED <<registro, identidade, ficha, comTagSite, semLider, renomeada>>

RenomearTagSite ==
    /\ tagSite = "sim"
    /\ tagSite' = "nao" /\ renomeada' = "sim"
    /\ UNCHANGED <<registro, identidade, ficha, comTagSite, semLider>>

-----------------------------------------------------------------------------
(* The family nucleus *)

FamEmCurso == {f \in Familias : familia[f].pc \notin {"nova", "feita"}}

\* The nucleus is loaded with its count; what the request holds of the row is this.
CarregarNucleo(f, op, p) ==
    /\ familia[f].pc = "nova"
    /\ familia' = [familia EXCEPT ![f] = [pc |-> "lida", op |-> op, pessoa |-> p,
                                          lida |-> quantidade, nova |-> quantidade]]
    /\ famCruzada' = IF FamEmCurso # {} THEN "sim" ELSE famCruzada
    /\ UNCHANGED <<membros, quantidade>>

MembrosCom(f) == IF familia[f].op = "incluir" THEN membros \cup {familia[f].pessoa}
                 ELSE membros \ {familia[f].pessoa}

\* INSERT or DELETE of the member, then the count: its own row and those
\* committed. A member twice, or none to remove, ends the request.
ContarMembros(f) ==
    /\ familia[f].pc = "lida"
    /\ familia' = IF MembrosCom(f) = membros THEN [familia EXCEPT ![f].pc = "feita"]
                  ELSE [familia EXCEPT ![f].pc = "contada",
                                       ![f].nova = Cardinality(MembrosCom(f))]
    /\ UNCHANGED <<membros, quantidade, famCruzada>>

\* What the flush writes: a count equal to the one loaded is not a change.
QuantidadeDepois(f) == IF familia[f].nova = familia[f].lida THEN quantidade
                       ELSE familia[f].nova

ConfirmarNucleo(f) ==
    /\ familia[f].pc = "contada"
    /\ membros' = MembrosCom(f)
    /\ quantidade' = QuantidadeDepois(f)
    /\ familia' = [familia EXCEPT ![f].pc = "feita"]
    /\ UNCHANGED famCruzada

-----------------------------------------------------------------------------
(* The types of a person *)

\* replace_person_types: DELETE of the rows committed so far,
ApagarTipos(t, S) ==
    /\ troca[t].pc = "nova"
    /\ troca' = [troca EXCEPT ![t] = [pc |-> "apagou", tipos |-> S, apagados |-> tiposP]]
    /\ trocaCruzada' = IF \E o \in Trocas : troca[o].pc = "apagou" THEN "sim" ELSE trocaCruzada
    /\ UNCHANGED tiposP

\* then INSERT of the new ones: a type another request left there in between
\* breaks the primary key and undoes the request.
GravarTipos(t) ==
    LET restantes == tiposP \ troca[t].apagados IN
    /\ troca[t].pc = "apagou"
    /\ tiposP' = IF restantes \cap troca[t].tipos = {} THEN restantes \cup troca[t].tipos
                 ELSE tiposP
    /\ troca' = [troca EXCEPT ![t].pc = IF restantes \cap troca[t].tipos = {} THEN "feita"
                                        ELSE "falhou"]
    /\ UNCHANGED trocaCruzada

-----------------------------------------------------------------------------
NextRegistro ==
    /\ UNCHANGED <<varsFamilia, varsTroca>>
    /\ \/ \E r \in Registros :
             \/ \E origem \in {"painel", "site"}, i \in Identidades \cup {Nenhuma},
                   lider \in {"sim", "nao"} : Registrar(r, origem, i, lider)
             \/ ProcurarTag(r) \/ InserirTag(r) \/ RelerTag(r) \/ ConfirmarCadastro(r)
             \/ \E i \in Identidades : TrocarIdentidade(r, i)
             \/ Excluir(r) \/ ResolverValidacao(r)
       \/ CriarTagSite \/ RenomearTagSite

NextFamilia ==
    /\ UNCHANGED <<varsRegistro, varsTroca>>
    /\ \E f \in Familias :
          \/ \E op \in {"incluir", "retirar"}, p \in Registros : CarregarNucleo(f, op, p)
          \/ ContarMembros(f) \/ ConfirmarNucleo(f)

NextTroca ==
    /\ UNCHANGED <<varsRegistro, varsFamilia>>
    /\ \E t \in Trocas :
          \/ \E S \in SUBSET TiposPessoa : ApagarTipos(t, S)
          \/ GravarTipos(t)

NextCadastro == NextRegistro \/ NextFamilia \/ NextTroca

SpecCadastro == InitCadastro /\ [][NextCadastro]_varsCadastro

-----------------------------------------------------------------------------
(* Properties *)

\* A CPF or a title belongs to one person, the deleted ones included.
IdentidadeUnica == \A i \in Identidades : Cardinality(DonoDa(i)) <= 1

\* Registrations through the site that overlap share one tag and none of them
\* fails for it, unless the tag is renamed meanwhile.
TagNaoImpede ==
    /\ renomeada = "nao" => \A r \in Registros : registro[r].pc # "falhouTag"
    /\ comTagSite # {} /\ renomeada = "nao" => tagSite = "sim"

\* Requests on a nucleus that never overlap leave its count right.
NucleoContado ==
    famCruzada = "nao" => quantidade = Cardinality(membros)

\* Replacements of types that never overlap leave what one of them asked for,
\* never the types of two, and none of them fails.
TrocasFeitas == {t \in Trocas : troca[t].pc = "feita"}
TiposPedidos ==
    trocaCruzada = "nao" =>
        /\ IF TrocasFeitas = {} THEN tiposP = {} ELSE \E t \in TrocasFeitas : tiposP = troca[t].tipos
        /\ \A t \in Trocas : troca[t].pc # "falhou"

\* CADASTRO. What the registration of a person leaves, request by request.
CadastroConfere ==
    /\ IdentidadeUnica
    /\ TagNaoImpede
    /\ NucleoContado
    /\ TiposPedidos
=============================================================================
